---- MODULE Spec2Model ----
(***************************************************************************)
(* A model of the "power" presentation builder: PowerPresentation          *)
(* (core.py), SlideBuilder (slides.py) and the two specification           *)
(* interpreters, cli._build_from_spec and api._build_from_spec.            *)
(*                                                                         *)
(* Text is a sequence of one-character strings, so that str.lower(),       *)
(* the `in` substring test, str.endswith() and str.replace() are computed  *)
(* character by character, as Python computes them.                        *)
(***************************************************************************)
EXTENDS Integers, Sequences, FiniteSets, TLC

VARIABLES
    layouts,    \* presentation.slide_layouts: sequence of layout records
    slides,     \* presentation.slides (_sldIdLst order): sequence of slide records
    rels,       \* rIds of the slide relationships held by the presentation part
    last        \* the call that produced this state: its name, arguments, pre-state, error

vars == <<layouts, slides, rels, last>>

----------------------------------------------------------------------------
(* Bounds of the model *)

MaxSlides == 3
\* slide ids handed out by one presentation: 256 .. 255 + MaxSlideIds
MaxSlideIds == 3
\* categories of a chart: 0 .. MaxCats; a series holds 0 .. MaxCats + 1 values
MaxCats == 2
\* charts added to one slide
MaxCharts == 1
\* entries of the slides list of a specification
MaxEntries == 2
\* characters of the first run of the text that replace_placeholders works on
MaxRunLen == 2
\* entries of a replacement map
MaxPairs == 2
\* builder calls made one after another on the slides of a presentation
MaxCalls == 2
\* calls made one after another on a presentation
MaxCoreCalls == 3

----------------------------------------------------------------------------
(* Python values *)

None == [t |-> "None"]
PyStr(s) == [t |-> "str", v |-> s]
PyInt(n) == [t |-> "int", v |-> n]

NoErr == [kind |-> "none"]
IndexError(what, n) == [kind |-> "IndexError", what |-> what, value |-> n]
ValueError(what, name, actual, expected) ==
    [kind |-> "ValueError", what |-> what, name |-> name,
     actual |-> actual, expected |-> expected]
AttributeError(attr) == [kind |-> "AttributeError", what |-> attr]
KeyError(what, n) == [kind |-> "KeyError", what |-> what, value |-> n]
FileNotFoundError(path) == [kind |-> "FileNotFoundError", what |-> path]
TypeError(field) == [kind |-> "TypeError", what |-> field]

Failed(e) == e.kind # "none"

\* x = value, then Body(x): a local name for a value that is used several times
With(value, Body(_)) == Body(value)

----------------------------------------------------------------------------
(* Strings *)

UpperCase == <<"A","B","C","D","E","F","G","H","I","J","K","L","M",
               "N","O","P","Q","R","S","T","U","V","W","X","Y","Z">>
LowerCase == <<"a","b","c","d","e","f","g","h","i","j","k","l","m",
               "n","o","p","q","r","s","t","u","v","w","x","y","z">>

\* the lower-case letter of every upper-case letter
LowerMap ==
    [c \in {UpperCase[i] : i \in 1..Len(UpperCase)} |->
        LowerCase[CHOOSE i \in 1..Len(UpperCase) : UpperCase[i] = c]]

LowerChar(c) == IF c \in DOMAIN LowerMap THEN LowerMap[c] ELSE c

\* str.lower()
lower(s) == [i \in 1..Len(s) |-> LowerChar(s[i])]

\* sub in s
Contains(s, sub) ==
    \E i \in 0..(Len(s) - Len(sub)) : SubSeq(s, i + 1, i + Len(sub)) = sub

\* s.endswith(suffix)
endswith(s, suffix) ==
    /\ Len(suffix) <= Len(s)
    /\ SubSeq(s, Len(s) - Len(suffix) + 1, Len(s)) = suffix

RECURSIVE Interleave(_, _)
\* what s.replace("", new) gives after its leading `new`
Interleave(s, new) ==
    IF s = <<>> THEN <<>> ELSE <<s[1]>> \o new \o Interleave(Tail(s), new)

RECURSIVE ReplaceFrom(_, _, _)
ReplaceFrom(s, old, new) ==
    IF Len(s) < Len(old) THEN s
    ELSE IF SubSeq(s, 1, Len(old)) = old
         THEN new \o ReplaceFrom(SubSeq(s, Len(old) + 1, Len(s)), old, new)
         ELSE <<s[1]>> \o ReplaceFrom(Tail(s), old, new)

\* s.replace(old, new): leftmost, non-overlapping occurrences
replace(s, old, new) ==
    IF old = <<>> THEN new \o Interleave(s, new) ELSE ReplaceFrom(s, old, new)

RECURSIVE Digits(_)
Digits(n) ==
    IF n < 10 THEN <<<<"0","1","2","3","4","5","6","7","8","9">>[n + 1]>>
    ELSE Digits(n \div 10) \o Digits(n % 10)

\* str(value)
str(val) ==
    CASE val.t = "str" -> val.v
      [] val.t = "int" -> IF val.v < 0 THEN <<"-">> \o Digits(0 - val.v) ELSE Digits(val.v)
      [] val.t = "None" -> <<"N","o","n","e">>

----------------------------------------------------------------------------
(* Placeholder types, as str(ph.placeholder_format.type) names them *)

PH_TITLE == <<"T","I","T","L","E">>
PH_CENTER_TITLE == <<"C","E","N","T","E","R","_","T","I","T","L","E">>
PH_SUBTITLE == <<"S","U","B","T","I","T","L","E">>
PH_BODY == <<"B","O","D","Y">>
PH_OBJECT == <<"O","B","J","E","C","T">>
PH_PICTURE == <<"P","I","C","T","U","R","E">>
PH_DATE == <<"D","A","T","E">>
PH_FOOTER == <<"F","O","O","T","E","R">>
PH_SLIDE_NUMBER == <<"S","L","I","D","E","_","N","U","M","B","E","R">>
PH_VERTICAL_TITLE == <<"V","E","R","T","I","C","A","L","_","T","I","T","L","E">>
PH_VERTICAL_BODY == <<"V","E","R","T","I","C","A","L","_","B","O","D","Y">>

----------------------------------------------------------------------------
(* Layout names *)

N_TitleSlide == <<"T","i","t","l","e"," ","S","l","i","d","e">>
N_TitleAndContent == <<"T","i","t","l","e"," ","a","n","d"," ","C","o","n","t","e","n","t">>
N_SectionHeader == <<"S","e","c","t","i","o","n"," ","H","e","a","d","e","r">>
N_TwoContent == <<"T","w","o"," ","C","o","n","t","e","n","t">>
N_Comparison == <<"C","o","m","p","a","r","i","s","o","n">>
N_TitleOnly == <<"T","i","t","l","e"," ","O","n","l","y">>
N_Blank == <<"B","l","a","n","k">>
N_ContentWithCaption == <<"C","o","n","t","e","n","t"," ","w","i","t","h"," ","C","a","p","t","i","o","n">>
N_PictureWithCaption == <<"P","i","c","t","u","r","e"," ","w","i","t","h"," ","C","a","p","t","i","o","n">>
N_TitleAndVerticalText == <<"T","i","t","l","e"," ","a","n","d"," ","V","e","r","t","i","c","a","l"," ","T","e","x","t">>
N_VerticalTitleAndText == <<"V","e","r","t","i","c","a","l"," ","T","i","t","l","e"," ","a","n","d"," ","T","e","x","t">>
N_BLANK_upper == <<"B","L","A","N","K">>
N_blank_lower == <<"b","l","a","n","k">>
N_Cover == <<"C","o","v","e","r">>
N_Photo == <<"P","h","o","t","o">>
N_NoSuch == <<"N","o"," ","S","u","c","h">>

Ph(idx, ptype) == [idx |-> idx, ptype |-> ptype]

\* The layouts of python-pptx's built-in default template, which Presentation()
\* opens when no template is given.
DefaultLayouts == <<
    [name |-> N_TitleSlide,
     placeholders |-> <<Ph(0, PH_CENTER_TITLE), Ph(1, PH_SUBTITLE), Ph(10, PH_DATE),
                        Ph(11, PH_FOOTER), Ph(12, PH_SLIDE_NUMBER)>>],
    [name |-> N_TitleAndContent,
     placeholders |-> <<Ph(0, PH_TITLE), Ph(1, PH_OBJECT), Ph(10, PH_DATE),
                        Ph(11, PH_FOOTER), Ph(12, PH_SLIDE_NUMBER)>>],
    [name |-> N_SectionHeader,
     placeholders |-> <<Ph(0, PH_TITLE), Ph(1, PH_BODY), Ph(10, PH_DATE),
                        Ph(11, PH_FOOTER), Ph(12, PH_SLIDE_NUMBER)>>],
    [name |-> N_TwoContent,
     placeholders |-> <<Ph(0, PH_TITLE), Ph(1, PH_OBJECT), Ph(2, PH_OBJECT), Ph(10, PH_DATE),
                        Ph(11, PH_FOOTER), Ph(12, PH_SLIDE_NUMBER)>>],
    [name |-> N_Comparison,
     placeholders |-> <<Ph(0, PH_TITLE), Ph(1, PH_BODY), Ph(2, PH_OBJECT), Ph(3, PH_BODY),
                        Ph(4, PH_OBJECT), Ph(10, PH_DATE), Ph(11, PH_FOOTER),
                        Ph(12, PH_SLIDE_NUMBER)>>],
    [name |-> N_TitleOnly,
     placeholders |-> <<Ph(0, PH_TITLE), Ph(10, PH_DATE), Ph(11, PH_FOOTER),
                        Ph(12, PH_SLIDE_NUMBER)>>],
    [name |-> N_Blank,
     placeholders |-> <<Ph(10, PH_DATE), Ph(11, PH_FOOTER), Ph(12, PH_SLIDE_NUMBER)>>],
    [name |-> N_ContentWithCaption,
     placeholders |-> <<Ph(0, PH_TITLE), Ph(1, PH_OBJECT), Ph(2, PH_BODY), Ph(10, PH_DATE),
                        Ph(11, PH_FOOTER), Ph(12, PH_SLIDE_NUMBER)>>],
    [name |-> N_PictureWithCaption,
     placeholders |-> <<Ph(0, PH_TITLE), Ph(1, PH_PICTURE), Ph(2, PH_BODY), Ph(10, PH_DATE),
                        Ph(11, PH_FOOTER), Ph(12, PH_SLIDE_NUMBER)>>],
    [name |-> N_TitleAndVerticalText,
     placeholders |-> <<Ph(0, PH_TITLE), Ph(1, PH_VERTICAL_BODY), Ph(10, PH_DATE),
                        Ph(11, PH_FOOTER), Ph(12, PH_SLIDE_NUMBER)>>],
    [name |-> N_VerticalTitleAndText,
     placeholders |-> <<Ph(0, PH_VERTICAL_TITLE), Ph(1, PH_VERTICAL_BODY), Ph(10, PH_DATE),
                        Ph(11, PH_FOOTER), Ph(12, PH_SLIDE_NUMBER)>>]
>>

\* Layouts of templates a caller may pass: names that differ only in case, a
\* placeholder set with a gap in its idx keys, and fewer layouts than the
\* conventional indices 2 and 6 need.
TemplateLayoutsA == <<
    [name |-> N_Cover, placeholders |-> <<Ph(0, PH_CENTER_TITLE), Ph(1, PH_SUBTITLE)>>],
    [name |-> N_BLANK_upper, placeholders |-> <<>>],
    [name |-> N_Blank, placeholders |-> <<Ph(0, PH_TITLE)>>],
    [name |-> N_Photo, placeholders |-> <<Ph(0, PH_TITLE), Ph(13, PH_PICTURE)>>]
>>

TemplateLayoutsB == <<
    [name |-> N_TitleOnly, placeholders |-> <<Ph(0, PH_TITLE)>>],
    [name |-> N_TitleAndContent, placeholders |-> <<Ph(0, PH_TITLE), Ph(1, PH_BODY)>>]
>>

----------------------------------------------------------------------------
(* The document: paragraphs, shapes, slides *)

EmptyPara == [runs |-> <<>>, level |-> 0, bold |-> FALSE]

RECURSIVE Concat(_)
Concat(ss) == IF ss = <<>> THEN <<>> ELSE Head(ss) \o Concat(Tail(ss))

\* paragraph.text (read)
ParaText(para) == Concat(para.runs)

\* paragraph.text = text: the runs are replaced by one run, none for empty text
SetParaText(para, text) ==
    [para EXCEPT !.runs = IF text = <<>> THEN <<>> ELSE <<text>>]

NoChart == [type |-> "none"]

BaseShape ==
    [kind |-> "none", idx |-> -1, ptype |-> <<>>, has_text_frame |-> FALSE,
     paras |-> <<>>, cells |-> <<>>, chart |-> NoChart, image |-> <<>>,
     geom |-> <<>>]

\* shape.text = text: one fresh paragraph holding the text
SetShapeText(shape, text) ==
    [shape EXCEPT !.paras = <<SetParaText(EmptyPara, text)>>]

\* Texts of a shape's paragraphs, in order
ParaTexts(shape) == [i \in 1..Len(shape.paras) |-> ParaText(shape.paras[i])]

\* the placeholders a new slide clones from its layout: all but date, footer
\* and slide number
ClonePlaceholders(phs) ==
    LET Keep(ph) == ph.ptype \notin {PH_DATE, PH_FOOTER, PH_SLIDE_NUMBER}
        kept == SelectSeq(phs, Keep)
    IN  [i \in 1..Len(kept) |->
            [BaseShape EXCEPT !.kind = "placeholder", !.idx = kept[i].idx,
                              !.ptype = kept[i].ptype, !.has_text_frame = TRUE,
                              !.paras = <<EmptyPara>>]]

NoNotes == [has |-> FALSE, text |-> <<>>]

\* slide.placeholders
Placeholders(slide) == SelectSeq(slide.shapes, LAMBDA sh : sh.kind = "placeholder")

\* position in slide.shapes of the first shape satisfying Test, 0 when none
FirstIndex(shapes, Test(_)) ==
    IF \E i \in 1..Len(shapes) : Test(shapes[i])
    THEN CHOOSE i \in 1..Len(shapes) :
            Test(shapes[i]) /\ \A j \in 1..(i - 1) : ~Test(shapes[j])
    ELSE 0

IsPlaceholderWithIdx(sh, idx) == sh.kind = "placeholder" /\ sh.idx = idx

\* slide.shapes.title: the first placeholder with idx 0 (0 when there is none)
TitleIndex(slide) == FirstIndex(slide.shapes, LAMBDA sh : IsPlaceholderWithIdx(sh, 0))

----------------------------------------------------------------------------
(* SlideBuilder (slides.py). Every operation takes the slide the builder   *)
(* wraps and returns the slide it leaves and the exception it raises.      *)

Ok(slide) == [slide |-> slide, err |-> NoErr]

Raise(slide, e) == [slide |-> slide, err |-> e]

\* files that exist on disk
F_logo == <<"l","o","g","o",".","p","n","g">>
F_missing == <<"n","o","p","e",".","p","n","g">>
Files == {F_logo}

\* slide.shapes.add_textbox(...) followed by paragraphs[0].text = text
TextBox(text, bold) ==
    [BaseShape EXCEPT !.kind = "textbox", !.has_text_frame = TRUE,
                      !.paras = <<[SetParaText(EmptyPara, text) EXCEPT !.bold = bold]>>]

add_text_box(slide, text, bold) ==
    Ok([slide EXCEPT !.shapes = Append(@, TextBox(text, bold))])

set_title(slide, text) ==
    LET t == TitleIndex(slide)
    IN  IF t > 0
        THEN Ok([slide EXCEPT !.shapes[t] = SetShapeText(@, text)])
        ELSE add_text_box(slide, text, TRUE)

\* placeholders[1] looks the placeholder up by its idx key and raises KeyError
\* when the slide has none with idx 1
set_subtitle(slide, text) ==
    LET at == FirstIndex(slide.shapes, LAMBDA sh : IsPlaceholderWithIdx(sh, 1))
    IN  IF Len(Placeholders(slide)) > 1
        THEN IF at > 0
             THEN Ok([slide EXCEPT !.shapes[at] = SetShapeText(@, text)])
             ELSE Raise(slide, KeyError("placeholder", 1))
        ELSE Ok(slide)

\* text_frame.clear(): the first paragraph stays, without its runs
ClearFrame(paras) == <<[paras[1] EXCEPT !.runs = <<>>]>>

\* the loop of add_bullets over a text frame whose first paragraph is `first`
BulletParas(first, items, levels) ==
    [i \in 1..Len(items) |->
        LET para == SetParaText(IF i = 1 THEN first ELSE EmptyPara, items[i])
        IN  IF i <= Len(levels) THEN [para EXCEPT !.level = levels[i]] ELSE para]

\* add_bullets without tf.clear(): the paragraphs the placeholder held after its
\* first one stay behind the new ones
add_bullets_no_clear(slide, items, levels) ==
    LET at == FirstIndex(slide.shapes, LAMBDA sh : IsPlaceholderWithIdx(sh, 1))
        usePlaceholder == at > 0 /\ slide.shapes[at].has_text_frame
        shapes == IF usePlaceholder THEN slide.shapes
                  ELSE Append(slide.shapes, TextBox(<<>>, FALSE))
        target == IF usePlaceholder THEN at ELSE Len(shapes)
    IN  Ok([slide EXCEPT !.shapes =
               IF items = <<>> THEN shapes
               ELSE [shapes EXCEPT ![target].paras =
                        BulletParas(shapes[target].paras[1], items, levels)
                        \o Tail(shapes[target].paras)]])

\* add_bullets that never looks for the placeholder with idx 1: the items always
\* go to a new text box
add_bullets_textbox_only(slide, items, levels) ==
    Ok([slide EXCEPT !.shapes =
           Append(@, [TextBox(<<>>, FALSE) EXCEPT !.paras =
                        IF items = <<>> THEN @ ELSE BulletParas(@[1], items, levels)])])

add_bullets(slide, items, levels) ==
    LET at == FirstIndex(slide.shapes, LAMBDA sh : IsPlaceholderWithIdx(sh, 1))
        usePlaceholder == at > 0 /\ slide.shapes[at].has_text_frame
        shapes == IF usePlaceholder
                  THEN [slide.shapes EXCEPT ![at].paras = ClearFrame(@)]
                  ELSE Append(slide.shapes, TextBox(<<>>, FALSE))
        target == IF usePlaceholder THEN at ELSE Len(shapes)
    IN  Ok([slide EXCEPT !.shapes =
               IF items = <<>> THEN shapes
               ELSE [shapes EXCEPT ![target].paras =
                        BulletParas(shapes[target].paras[1], items, levels)]])

EmptyCell == [text |-> <<>>, fill |-> "none", bold |-> FALSE]

\* bool(headers): None and the empty list are false
Truthy(val) == val.t # "None" /\ val.v # <<>>

\* the cells add_table writes: the header row first, then the data rows, values
\* at or beyond column `cols` skipped by the break
TableCells(data, headers, rows, cols) ==
    LET row_offset == IF Truthy(headers) THEN 1 ELSE 0
    IN  [r \in 1..rows |-> [c \in 1..cols |->
            IF r = 1 /\ row_offset = 1
            THEN [text |-> str(headers.v[c]), fill |-> "PRIMARY", bold |-> TRUE]
            ELSE IF c <= Len(data[r - row_offset])
                 THEN [EmptyCell EXCEPT !.text = str(data[r - row_offset][c])]
                 ELSE EmptyCell]]

\* add_table whose loop tests col_idx > cols: the value at column `cols` of a
\* longer row reaches table.cell, which raises IndexError
add_table_off_by_one(slide, data, headers) ==
    LET rows == Len(data) + (IF Truthy(headers) THEN 1 ELSE 0)
        cols == IF Truthy(headers) THEN Len(headers.v)
                ELSE IF data # <<>> THEN Len(data[1]) ELSE 1
    IN  IF \E r \in 1..Len(data) : Len(data[r]) > cols
        THEN Raise([slide EXCEPT !.shapes = Append(@,
                       [BaseShape EXCEPT !.kind = "table",
                                         !.cells = TableCells(data, headers, rows, cols)])],
                   IndexError("cell", cols))
        ELSE Ok([slide EXCEPT !.shapes = Append(@,
                    [BaseShape EXCEPT !.kind = "table",
                                      !.cells = TableCells(data, headers, rows, cols)])])

add_table(slide, data, headers) ==
    LET rows == Len(data) + (IF Truthy(headers) THEN 1 ELSE 0)
        cols == IF Truthy(headers) THEN Len(headers.v)
                ELSE IF data # <<>> THEN Len(data[1]) ELSE 1
    IN  Ok([slide EXCEPT !.shapes = Append(@,
               [BaseShape EXCEPT !.kind = "table",
                                 !.cells = TableCells(data, headers, rows, cols)])])

\* position of the first series whose length differs from the category count,
\* 0 when every series fits
FirstMismatch(categories, series_data) ==
    LET Bad(i) == Len(series_data[i].values) # Len(categories)
    IN  IF \E i \in 1..Len(series_data) : Bad(i)
        THEN CHOOSE i \in 1..Len(series_data) : Bad(i) /\ \A j \in 1..(i - 1) : ~Bad(j)
        ELSE 0

ChartShape(chart_type, categories, series, has_legend, position) ==
    [BaseShape EXCEPT !.kind = "chart",
                      !.chart = [type |-> chart_type, categories |-> categories,
                                 series |-> series, has_legend |-> has_legend,
                                 legend_position |-> position]]

\* add_bar_chart without the length check of lines 283-287
add_bar_chart_unchecked(slide, categories, series_data, chart_type, has_legend) ==
    Ok([slide EXCEPT !.shapes = Append(@,
           ChartShape(chart_type, categories, series_data, has_legend,
                      IF has_legend THEN "BOTTOM" ELSE "none"))])

\* series_data is a dict: a sequence of [name, values] in insertion order
add_bar_chart(slide, categories, series_data, chart_type, has_legend) ==
    LET bad == FirstMismatch(categories, series_data)
    IN  IF bad > 0
        THEN Raise(slide, ValueError("series", series_data[bad].name,
                                     Len(series_data[bad].values), Len(categories)))
        ELSE Ok([slide EXCEPT !.shapes = Append(@,
                    ChartShape(chart_type, categories, series_data, has_legend,
                               IF has_legend THEN "BOTTOM" ELSE "none"))])

add_line_chart(slide, categories, series_data) ==
    add_bar_chart(slide, categories, series_data, "LINE", TRUE)

S_Series1 == <<"S","e","r","i","e","s"," ","1">>

add_pie_chart(slide, categories, values) ==
    Ok([slide EXCEPT !.shapes = Append(@,
           ChartShape("PIE", categories, <<[name |-> S_Series1, values |-> values]>>,
                      TRUE, "RIGHT"))])

\* Lengths are kept in hundredths of an inch. Inches(4), and the defaults
\* POSITIONS.CONTENT_LEFT and POSITIONS.CONTENT_TOP
DefaultImageWidth == PyInt(400)
CONTENT_LEFT == PyInt(117)
CONTENT_TOP == PyInt(180)

\* image_path is a str here; a path that does not exist raises. None stands
\* for a keyword the caller did not pass.
add_image(slide, image_path, left, top, width, height) ==
    IF image_path \notin Files
    THEN Raise(slide, FileNotFoundError(image_path))
    ELSE Ok([slide EXCEPT !.shapes = Append(@,
                [BaseShape EXCEPT !.kind = "picture", !.image = image_path,
                    !.geom = [left |-> IF left = None THEN CONTENT_LEFT ELSE left,
                              top |-> IF top = None THEN CONTENT_TOP ELSE top,
                              width |-> IF width = None /\ height = None
                                        THEN DefaultImageWidth ELSE width,
                              height |-> height]])])

\* add_note writing after the notes the slide already has
add_note_appending(slide, text) ==
    Ok([slide EXCEPT !.notes = [has |-> TRUE, text |-> @.text \o text]])

add_note(slide, text) == Ok([slide EXCEPT !.notes = [has |-> TRUE, text |-> text]])

----------------------------------------------------------------------------
(* PowerPresentation (core.py). A presentation value is                    *)
(* [layouts, slides, rels]; every operation returns the presentation it    *)
(* leaves and the exception it raises (NoErr when it returns).             *)

slide_count(P) == Len(P.slides)

layout_count(P) == Len(P.layouts)

\* get_layout comparing names without lower(): "blank" no longer finds "Blank"
get_layout_case_sensitive(P, index_or_name) ==
    IF index_or_name.t = "int"
    THEN IF 0 <= index_or_name.v /\ index_or_name.v < layout_count(P)
         THEN [index |-> index_or_name.v, err |-> NoErr]
         ELSE [index |-> -1, err |-> IndexError("layout", index_or_name.v)]
    ELSE LET Match(i) == P.layouts[i].name = index_or_name.v
         IN  IF \E i \in 1..layout_count(P) : Match(i)
             THEN [index |-> (CHOOSE i \in 1..layout_count(P) :
                                Match(i) /\ \A j \in 1..(i - 1) : ~Match(j)) - 1,
                   err |-> NoErr]
             ELSE [index |-> -1, err |-> ValueError("layout", index_or_name.v, 0, 0)]

\* get_layout: the 0-based index of the layout found
get_layout(P, index_or_name) ==
    IF index_or_name.t = "int"
    THEN IF 0 <= index_or_name.v /\ index_or_name.v < layout_count(P)
         THEN [index |-> index_or_name.v, err |-> NoErr]
         ELSE [index |-> -1, err |-> IndexError("layout", index_or_name.v)]
    ELSE LET Match(i) == lower(P.layouts[i].name) = lower(index_or_name.v)
         IN  IF \E i \in 1..layout_count(P) : Match(i)
             THEN [index |-> (CHOOSE i \in 1..layout_count(P) :
                                Match(i) /\ \A j \in 1..(i - 1) : ~Match(j)) - 1,
                   err |-> NoErr]
             ELSE [index |-> -1, err |-> ValueError("layout", index_or_name.v, 0, 0)]

SetMax(S) == CHOOSE x \in S : \A y \in S : y <= x

\* presentation.slides.add_slide(slide_layout): a slide with the next slide id
\* and the lowest unused rId, holding clones of the layout's placeholders
NewSlide(P, layoutIndex) ==
    [id |-> SetMax({255} \cup {P.slides[i].id : i \in 1..Len(P.slides)}) + 1,
     rId |-> CHOOSE n \in 1..(Cardinality(P.rels) + 1) :
                n \notin P.rels /\ \A m \in 1..(n - 1) : m \in P.rels,
     layout |-> layoutIndex,
     shapes |-> ClonePlaceholders(P.layouts[layoutIndex + 1].placeholders),
     notes |-> NoNotes]

add_slide(P, layout) ==
    With(get_layout(P, layout), LAMBDA found :
        IF Failed(found.err)
        THEN [p |-> P, err |-> found.err]
        ELSE With(NewSlide(P, found.index), LAMBDA slide :
                [p |-> [P EXCEPT !.slides = Append(@, slide),
                                 !.rels = @ \cup {slide.rId}],
                 err |-> NoErr]))

\* del seq[index] (0-based)
DeleteAt(seq, index) ==
    [j \in 1..(Len(seq) - 1) |-> IF j <= index THEN seq[j] ELSE seq[j + 1]]

\* remove_slide without the lower bound check: a negative index counts from the
\* end, as Python's list indexing does
remove_slide_no_lower_bound(P, index) ==
    IF ~(index < slide_count(P)) \/ index < 0 - slide_count(P)
    THEN [p |-> P, err |-> IndexError("slide", index)]
    ELSE LET at == IF index < 0 THEN index + slide_count(P) ELSE index
             slide_id == P.slides[at + 1].rId
         IN  [p |-> [P EXCEPT !.rels = @ \ {slide_id},
                             !.slides = DeleteAt(@, at)],
              err |-> NoErr]

\* remove_slide that also drops the layout the removed slide was made from
remove_slide_dropping_layout(P, index) ==
    IF ~(0 <= index /\ index < slide_count(P))
    THEN [p |-> P, err |-> IndexError("slide", index)]
    ELSE LET slide_id == P.slides[index + 1].rId
         IN  [p |-> [P EXCEPT !.rels = @ \ {slide_id},
                             !.layouts = DeleteAt(@, P.slides[index + 1].layout),
                             !.slides = DeleteAt(@, index)],
              err |-> NoErr]

\* remove_slide deleting the list entry without dropping the relationship
remove_slide_keeping_rel(P, index) ==
    IF ~(0 <= index /\ index < slide_count(P))
    THEN [p |-> P, err |-> IndexError("slide", index)]
    ELSE [p |-> [P EXCEPT !.slides = DeleteAt(@, index)], err |-> NoErr]

\* presentation.part.drop_rel(rId): the relationship is popped from the part's
\* relationships; popping one that is not there raises KeyError
drop_rel(P, rId) ==
    IF rId \in P.rels
    THEN [p |-> [P EXCEPT !.rels = @ \ {rId}], err |-> NoErr]
    ELSE [p |-> P, err |-> KeyError("rel", rId)]

\* remove_slide: the bounds check, then drop_rel, then the deletion of the
\* list entry; an exception of a statement leaves what the earlier ones did
remove_slide(P, index) ==
    IF ~(0 <= index /\ index < slide_count(P))
    THEN [p |-> P, err |-> IndexError("slide", index)]
    ELSE With(drop_rel(P, P.slides[index + 1].rId), LAMBDA r :
            IF Failed(r.err) THEN r
            ELSE [p |-> [r.p EXCEPT !.slides = DeleteAt(@, index)], err |-> NoErr])

\* clear_slides: remove_slide(0) while slides remain
RECURSIVE clear_slides(_)
clear_slides(P) ==
    IF slide_count(P) > 0
    THEN With(remove_slide(P, 0), LAMBDA r :
            IF Failed(r.err) THEN r ELSE clear_slides(r.p))
    ELSE [p |-> P, err |-> NoErr]

S_title_and_content == lower(N_TitleAndContent)
S_title_amp_content == <<"t","i","t","l","e"," ","&"," ","c","o","n","t","e","n","t">>
S_title_comma_content == <<"t","i","t","l","e",","," ","c","o","n","t","e","n","t">>
S_content == <<"c","o","n","t","e","n","t">>
S_CENTER == <<"C","E","N","T","E","R">>

content_layout_names == {S_title_and_content, S_title_amp_content, S_title_comma_content}

\* the first loop without the endswith test: any name containing "title and
\* content" matches, "Title and Content Caption" too
NameMatchContainsOnly(layout) ==
    LET name_lower == lower(layout.name)
    IN  \/ name_lower \in content_layout_names
        \/ Contains(name_lower, S_title_and_content)

\* the first loop of find_content_layout: does layout i match by name
NameMatch(layout) ==
    LET name_lower == lower(layout.name)
    IN  \/ name_lower \in content_layout_names
        \/ Contains(name_lower, S_title_and_content) /\ endswith(name_lower, S_content)

\* the second loop: a placeholder whose type name contains TITLE and not
\* CENTER, and one whose type name contains OBJECT or BODY
StructureMatch(layout) ==
    LET phs == layout.placeholders
        has_title == \E k \in 1..Len(phs) :
                        /\ Contains(phs[k].ptype, PH_TITLE)
                        /\ ~Contains(phs[k].ptype, S_CENTER)
        has_content == \E k \in 1..Len(phs) :
                        \/ Contains(phs[k].ptype, PH_OBJECT)
                        \/ Contains(phs[k].ptype, PH_BODY)
    IN  has_title /\ has_content

\* 0-based index of the first layout satisfying Test, -1 when none
FirstLayout(P, Test(_)) ==
    IF \E i \in 1..layout_count(P) : Test(P.layouts[i])
    THEN (CHOOSE i \in 1..layout_count(P) :
            Test(P.layouts[i]) /\ \A j \in 1..(i - 1) : ~Test(P.layouts[j])) - 1
    ELSE -1

find_content_layout(P) ==
    With(FirstLayout(P, NameMatch), LAMBDA by_name :
        IF by_name >= 0 THEN by_name
        ELSE With(FirstLayout(P, StructureMatch), LAMBDA by_structure :
                IF by_structure >= 0 THEN by_structure ELSE 1))

\* the builder of the slide appended last applies an operation
OnLastSlide(P, r) ==
    [p |-> [P EXCEPT !.slides[Len(P.slides)] = r.slide], err |-> r.err]

LastSlide(P) == P.slides[Len(P.slides)]

\* run Step on the presentation r left, unless r raised
Then(r, Step(_)) == IF Failed(r.err) THEN r ELSE Step(r.p)

add_title_slide(P, title, subtitle, layout) ==
    Then(add_slide(P, layout), LAMBDA Q :
    Then(OnLastSlide(Q, set_title(LastSlide(Q), title)), LAMBDA R :
         IF subtitle # <<>>
         THEN OnLastSlide(R, set_subtitle(LastSlide(R), subtitle))
         ELSE [p |-> R, err |-> NoErr]))

add_section_slide(P, title, subtitle) == add_title_slide(P, title, subtitle, PyInt(2))

\* bullets is None or a list of strings; layout is None, an int or a str
add_content_slide(P, title, bullets, layout) ==
    Then(add_slide(P, IF layout = None THEN PyInt(find_content_layout(P)) ELSE layout),
         LAMBDA Q :
    Then(OnLastSlide(Q, set_title(LastSlide(Q), title)), LAMBDA R :
         IF Truthy(bullets)
         THEN OnLastSlide(R, add_bullets(LastSlide(R), bullets.v, <<>>))
         ELSE [p |-> R, err |-> NoErr]))

add_blank_slide(P) == add_slide(P, PyInt(6))

----------------------------------------------------------------------------
(* The specification interpreters: cli._build_from_spec and                *)
(* api._build_from_spec. A dict is a record with the set `keys` of the keys *)
(* it carries; a field outside `keys` is absent.                           *)

\* d.get(k, default)
Get(d, k, default) == IF k \in d.keys THEN d[k] ELSE default

\* Inches(value): int(value * 914400) raises for a str that is no number. The
\* ValueError names the literal int() was given, not the field it came from.
Inches(val, field) ==
    IF val.t = "int" THEN [v |-> val, err |-> NoErr]
    ELSE [v |-> None, err |-> ValueError("int", val.v, 0, 0)]

\* PowerPresentation defines no find_title_only_layout: looking the attribute
\* up raises AttributeError
find_title_only_layout(P) ==
    [index |-> -1, err |-> AttributeError("find_title_only_layout")]

\* SlideBuilder defines no fill_picture_placeholder: looking the attribute up
\* raises AttributeError
fill_picture_placeholder(slide, image_path, placeholder_idx) ==
    Raise(slide, AttributeError("fill_picture_placeholder"))

IsDigit(c) == c \in {"0","1","2","3","4","5","6","7","8","9"}

\* int(idx_str): an int is itself, a str of decimal digits parses, any other
\* str raises ValueError
int(val) ==
    IF val.t = "int" THEN [ok |-> TRUE, err |-> NoErr]
    ELSE IF val.v # <<>> /\ \A i \in 1..Len(val.v) : IsDigit(val.v[i])
         THEN [ok |-> TRUE, err |-> NoErr]
         ELSE [ok |-> FALSE, err |-> ValueError("int", val.v, 0, 0)]

RECURSIVE FillEachCatchAll(_, _)
\* the loop of _fill_placeholder_images with `except Exception`: whatever a
\* fill raises is reported as a warning and the loop goes on
FillEachCatchAll(P, items) ==
    IF items = <<>> THEN [p |-> P, err |-> NoErr]
    ELSE With(int(items[1].key), LAMBDA idx :
         With(IF idx.ok
              THEN OnLastSlide(P, fill_picture_placeholder(
                        LastSlide(P), items[1].path, items[1].key))
              ELSE [p |-> P, err |-> idx.err], LAMBDA filled :
            FillEachCatchAll(filled.p, Tail(items))))

RECURSIVE FillEach(_, _)
\* the loop of _fill_placeholder_images over the items of the mapping: a
\* ValueError or FileNotFoundError is caught and the loop goes on, any other
\* exception leaves the loop
FillEach(P, items) ==
    IF items = <<>> THEN [p |-> P, err |-> NoErr]
    ELSE With(int(items[1].key), LAMBDA idx :
         With(IF idx.ok
              THEN OnLastSlide(P, fill_picture_placeholder(
                        LastSlide(P), items[1].path, items[1].key))
              ELSE [p |-> P, err |-> idx.err], LAMBDA filled :
            IF filled.err.kind \in {"none", "ValueError", "FileNotFoundError"}
            THEN FillEach(filled.p, Tail(items))
            ELSE filled))

fill_placeholder_images(P, slide_spec) ==
    IF Get(slide_spec, "placeholder_images", <<>>) = <<>> THEN [p |-> P, err |-> NoErr]
    ELSE FillEach(P, slide_spec.placeholder_images)

\* the result of dispatching one entry: builder tells whether `builder` holds
\* a SlideBuilder (is not None) when the branch is left
Made(r) == [p |-> r.p, err |-> r.err, builder |-> ~Failed(r.err)]

NotMade(P) == [p |-> P, err |-> NoErr, builder |-> FALSE]

TitleEntry(P, e) ==
    Made(add_title_slide(P, Get(e, "title", <<>>), Get(e, "subtitle", <<>>), PyInt(0)))

SectionEntry(P, e) ==
    Made(add_section_slide(P, Get(e, "title", <<>>), Get(e, "subtitle", <<>>)))

\* the first error among the coercions made, in the order they are made
FirstError(errs) ==
    IF \E i \in 1..Len(errs) : Failed(errs[i])
    THEN errs[CHOOSE i \in 1..Len(errs) :
                Failed(errs[i]) /\ \A j \in 1..(i - 1) : ~Failed(errs[j])]
    ELSE NoErr

\* Inches(value) for a key that is present and not None, None otherwise
InchesOrNone(e, k) ==
    IF Get(e, k, None) = None THEN [v |-> None, err |-> NoErr] ELSE Inches(e[k], k)

\* builder.add_image(image_path, left=Inches(left), top=Inches(top),
\* width=Inches(width)[, height=Inches(height)]) of the content branch
ContentImage(P, e) ==
    With(<<Inches(Get(e, "image_left", PyInt(700)), "image_left"),
           Inches(Get(e, "image_top", PyInt(150)), "image_top"),
           Inches(Get(e, "image_width", PyInt(500)), "image_width"),
           InchesOrNone(e, "image_height")>>, LAMBDA g :
        IF Failed(FirstError(<<g[1].err, g[2].err, g[3].err, g[4].err>>))
        THEN [p |-> P, err |-> FirstError(<<g[1].err, g[2].err, g[3].err, g[4].err>>)]
        ELSE OnLastSlide(P, add_image(LastSlide(P), e.image, g[1].v, g[2].v, g[3].v,
                                      g[4].v)))

\* the content branch up to and including the optional image
ContentEntry(P, e) ==
    Then(add_content_slide(P, Get(e, "title", <<>>), Get(e, "bullets", None),
                           Get(e, "layout", None)), LAMBDA Q :
         IF Get(e, "image", <<>>) = <<>> THEN [p |-> Q, err |-> NoErr]
         ELSE ContentImage(Q, e))

\* ppt.add_slide(ppt.find_title_only_layout())
AddTitleOnlySlide(P) ==
    With(find_title_only_layout(P), LAMBDA title_only_layout :
        IF Failed(title_only_layout.err) THEN [p |-> P, err |-> title_only_layout.err]
        ELSE add_slide(P, PyInt(title_only_layout.index)))

TableEntry(P, e) ==
    Then(AddTitleOnlySlide(P), LAMBDA Q :
    Then(OnLastSlide(Q, set_title(LastSlide(Q), Get(e, "title", <<>>))), LAMBDA R :
         OnLastSlide(R, add_table(LastSlide(R), Get(e, "data", <<>>),
                                  Get(e, "headers", None)))))

\* list(series.values())[0] if series else []
FirstValues(series) == IF series # <<>> THEN series[1].values ELSE <<>>

ChartEntry(P, e) ==
    Then(AddTitleOnlySlide(P), LAMBDA Q :
    Then(OnLastSlide(Q, set_title(LastSlide(Q), Get(e, "title", <<>>))), LAMBDA R :
         OnLastSlide(R,
            IF Get(e, "chart_type", "bar") = "pie"
            THEN add_pie_chart(LastSlide(R), Get(e, "categories", <<>>),
                               FirstValues(Get(e, "series", <<>>)))
            ELSE IF Get(e, "chart_type", "bar") = "line"
            THEN add_line_chart(LastSlide(R), Get(e, "categories", <<>>),
                                Get(e, "series", <<>>))
            ELSE add_bar_chart(LastSlide(R), Get(e, "categories", <<>>),
                               Get(e, "series", <<>>), "COLUMN_CLUSTERED", TRUE))))

\* the image branch after the title: the optional picture, with the geometry
\* keys that are present and not None
ImagePicture(P, e) ==
    With(IF Get(e, "image", <<>>) # <<>> THEN e.image ELSE Get(e, "path", <<>>),
         LAMBDA image_path :
        IF image_path = <<>> THEN [p |-> P, err |-> NoErr]
        ELSE With(<<InchesOrNone(e, "left"), InchesOrNone(e, "top"),
                    InchesOrNone(e, "width"), InchesOrNone(e, "height")>>, LAMBDA g :
                IF Failed(FirstError(<<g[1].err, g[2].err, g[3].err, g[4].err>>))
                THEN [p |-> P,
                      err |-> FirstError(<<g[1].err, g[2].err, g[3].err, g[4].err>>)]
                ELSE OnLastSlide(P, add_image(LastSlide(P), image_path, g[1].v, g[2].v,
                                              g[3].v, g[4].v))))

\* the image branch; has_title is the entry point's test for setting the title
ImageEntry(P, e, has_title) ==
    Then(AddTitleOnlySlide(P), LAMBDA Q :
    Then(IF has_title THEN OnLastSlide(Q, set_title(LastSlide(Q), e.title))
         ELSE [p |-> Q, err |-> NoErr], LAMBDA R :
         ImagePicture(R, e)))

BlankEntry(P) == Made(add_blank_slide(P))

\* builder.add_note(slide_spec["note"]) when Test holds
NoteIf(r, test, e) ==
    IF test THEN Then(r, LAMBDA Q : OnLastSlide(Q, add_note(LastSlide(Q), e.note))) ELSE r

\* the dispatch of cli._build_from_spec on the type of an entry
cli_dispatch(P, e, slide_type) ==
    CASE slide_type = "title" -> TitleEntry(P, e)
      [] slide_type = "section" -> SectionEntry(P, e)
      [] slide_type = "content" -> Made(NoteIf(ContentEntry(P, e), "note" \in e.keys, e))
      [] slide_type = "table" -> Made(TableEntry(P, e))
      [] slide_type = "chart" -> Made(ChartEntry(P, e))
      [] slide_type = "image" ->
            Made(NoteIf(ImageEntry(P, e, "title" \in e.keys), "note" \in e.keys, e))
      [] slide_type = "blank" -> BlankEntry(P)
      [] OTHER -> NotMade(P)

\* cli_entry testing only the key, not `builder`: for an unknown type builder is
\* None and None.fill_picture_placeholder raises
cli_entry_no_builder_test(P, e) ==
    With(cli_dispatch(P, e, Get(e, "type", "content")), LAMBDA d :
        IF ~Failed(d.err) /\ "placeholder_images" \in e.keys
        THEN IF d.builder THEN Made(fill_placeholder_images(d.p, e))
             ELSE [p |-> d.p, err |-> AttributeError("fill_picture_placeholder"),
                   builder |-> FALSE]
        ELSE d)

\* one iteration of the loop of cli._build_from_spec
cli_entry(P, e) ==
    With(cli_dispatch(P, e, Get(e, "type", "content")), LAMBDA d :
        IF ~Failed(d.err) /\ d.builder /\ "placeholder_images" \in e.keys
        THEN Made(fill_placeholder_images(d.p, e))
        ELSE d)

\* the dispatch of api._build_from_spec on the type of an entry
api_dispatch(P, e, slide_type) ==
    CASE slide_type = "title" -> TitleEntry(P, e)
      [] slide_type = "section" -> SectionEntry(P, e)
      [] slide_type = "content" -> Made(ContentEntry(P, e))
      [] slide_type = "table" -> Made(TableEntry(P, e))
      [] slide_type = "chart" -> Made(ChartEntry(P, e))
      [] slide_type = "image" -> Made(ImageEntry(P, e, Get(e, "title", <<>>) # <<>>))
      [] slide_type = "blank" -> BlankEntry(P)
      [] OTHER -> NotMade(P)

\* one iteration of the loop of api._build_from_spec
api_entry(P, e) ==
    With(api_dispatch(P, e, Get(e, "type", "content")), LAMBDA d :
        IF ~Failed(d.err) /\ d.builder /\ Get(e, "note", <<>>) # <<>>
        THEN Made(OnLastSlide(d.p, add_note(LastSlide(d.p), e.note)))
        ELSE d)

RECURSIVE cli_entries(_, _)
cli_entries(P, entries) ==
    IF entries = <<>> THEN [p |-> P, err |-> NoErr]
    ELSE With(cli_entry(P, entries[1]), LAMBDA d :
            IF Failed(d.err) THEN [p |-> d.p, err |-> d.err]
            ELSE cli_entries(d.p, Tail(entries)))

RECURSIVE api_entries(_, _)
api_entries(P, entries) ==
    IF entries = <<>> THEN [p |-> P, err |-> NoErr]
    ELSE With(api_entry(P, entries[1]), LAMBDA d :
            IF Failed(d.err) THEN [p |-> d.p, err |-> d.err]
            ELSE api_entries(d.p, Tail(entries)))

\* cli._build_from_spec: the title slide when the key "title" is present
cli_build_from_spec(P, spec) ==
    Then(IF "title" \in spec.keys
         THEN add_title_slide(P, Get(spec, "title", <<>>), Get(spec, "subtitle", <<>>),
                              PyInt(0))
         ELSE [p |-> P, err |-> NoErr],
         LAMBDA Q : cli_entries(Q, Get(spec, "slides", <<>>)))

\* api._build_from_spec: the title slide when spec.get("title") is truthy
api_build_from_spec(P, spec) ==
    Then(IF Get(spec, "title", <<>>) # <<>>
         THEN add_title_slide(P, Get(spec, "title", <<>>), Get(spec, "subtitle", <<>>),
                              PyInt(0))
         ELSE [p |-> P, err |-> NoErr],
         LAMBDA Q : api_entries(Q, Get(spec, "slides", <<>>)))

----------------------------------------------------------------------------
(* PowerPresentation.replace_placeholders *)

RECURSIVE ReplaceInRun(_, _)
\* the loop over replacements.items() on one run: a dict is iterated in
\* insertion order, each entry working on what the entries before it left
ReplaceInRun(text, replacements) ==
    IF replacements = <<>> THEN text
    ELSE ReplaceInRun(IF Contains(text, replacements[1].key)
                      THEN replace(text, replacements[1].key, str(replacements[1].value))
                      ELSE text,
                      Tail(replacements))

RECURSIVE ReplaceInRunFirstKey(_, _)
\* the loop over the entries leaving the run after the first entry that matched
ReplaceInRunFirstKey(text, replacements) ==
    IF replacements = <<>> THEN text
    ELSE IF Contains(text, replacements[1].key)
         THEN replace(text, replacements[1].key, str(replacements[1].value))
         ELSE ReplaceInRunFirstKey(text, Tail(replacements))

ReplaceInShape(shape, replacements, InRun(_, _)) ==
    IF ~shape.has_text_frame THEN shape
    ELSE [shape EXCEPT !.paras =
            [q \in 1..Len(shape.paras) |->
                [shape.paras[q] EXCEPT !.runs =
                    [r \in 1..Len(shape.paras[q].runs) |->
                        InRun(shape.paras[q].runs[r], replacements)]]]]

ReplaceInSlides(P, replacements, InRun(_, _)) ==
    [p |-> [P EXCEPT !.slides =
               [i \in 1..Len(P.slides) |->
                   [P.slides[i] EXCEPT !.shapes =
                       [j \in 1..Len(P.slides[i].shapes) |->
                           ReplaceInShape(P.slides[i].shapes[j], replacements, InRun)]]]],
     err |-> NoErr]

\* replace_placeholders with a break after the first matching entry
replace_placeholders_first_key(P, replacements) ==
    ReplaceInSlides(P, replacements, ReplaceInRunFirstKey)

replace_placeholders(P, replacements) ==
    ReplaceInSlides(P, replacements, ReplaceInRun)

----------------------------------------------------------------------------
(* The state machine *)

\* the presentation held in the variables
Prs == [layouts |-> layouts, slides |-> slides, rels |-> rels]

\* the state after a call: what the call left, and the record of the call
Commit(r, op, args) ==
    /\ layouts' = r.p.layouts
    /\ slides' = r.p.slides
    /\ rels' = r.p.rels
    /\ last' = [op |-> op, args |-> args,
                pre |-> [slides |-> slides, rels |-> rels], err |-> r.err]

NoCall == [op |-> "init", args |-> <<>>, pre |-> <<>>, err |-> NoErr]

\* PowerPresentation(template): the layouts of the default template or of a
\* template file
Loaded(lay) ==
    /\ layouts = lay
    /\ slides = <<>>
    /\ rels = {}
    /\ last = NoCall

Decks == {DefaultLayouts, TemplateLayoutsA, TemplateLayoutsB}

NameArgs == {N_Blank, N_blank_lower, N_BLANK_upper, N_TitleOnly, lower(N_Cover), N_NoSuch}

\* layout indices tried: below range, the conventional 0, 1, 2 and 6, and the
\* layout counts of the three decks (the first index out of range)
LayoutIndexArgs == {-1, 0, 1, 2, 4, 6, 11}

Init == \E lay \in Decks : Loaded(lay)

\* room for one more slide within the bounds
CanAdd(P) ==
    /\ Len(P.slides) < MaxSlides
    /\ \A i \in 1..Len(P.slides) : P.slides[i].id < 255 + MaxSlideIds

AddSlide(layout) ==
    /\ CanAdd(Prs)
    /\ Commit(add_slide(Prs, layout), "add_slide", [layout |-> layout])

RemoveSlide(index) ==
    Commit(remove_slide(Prs, index), "remove_slide", [index |-> index])

Next ==
    \/ \E i \in LayoutIndexArgs : AddSlide(PyInt(i))
    \/ \E n \in NameArgs : AddSlide(PyStr(n))
    \/ \E i \in -1..Len(slides) : RemoveSlide(i)

Spec == Init /\ [][Next]_vars

----------------------------------------------------------------------------
(* Charts on a slide: the builder of a slide adds bar, line and pie charts *)

\* the builder of slide k (1-based position) applies an operation
OnSlide(P, k, r) == [p |-> [P EXCEPT !.slides[k] = r.slide], err |-> r.err]

\* the state a call leaves, as an initial state
Holds(P) ==
    /\ layouts = P.layouts
    /\ slides = P.slides
    /\ rels = P.rels
    /\ last = NoCall

Fresh(lay) == [layouts |-> lay, slides |-> <<>>, rels |-> {}]

CategoryNames == <<<<"Q","1">>, <<"Q","2">>, <<"Q","3">>, <<"Q","4">>>>
SeriesNames == <<<<"R","e","v">>, <<"C","o","s","t">>>>
SeriesValues == <<10, 20, 30, 40, 50>>

Categories(n) == SubSeq(CategoryNames, 1, n)
Values(m) == SubSeq(SeriesValues, 1, m)

\* the lengths tried for the values of a series next to n categories: one
\* short, fitting, one long
Lengths(n) == {m \in {n - 1, n, n + 1} : m >= 0}

\* series maps of zero, one or two series, by the lengths of their value lists
SeriesMaps(n) ==
    {<<>>}
    \cup {<<[name |-> SeriesNames[1], values |-> Values(a)]>> : a \in Lengths(n)}
    \cup {<<[name |-> SeriesNames[1], values |-> Values(a)],
            [name |-> SeriesNames[2], values |-> Values(b)]>> :
                a \in Lengths(n), b \in Lengths(n)}

ChartCount(slide) == Len(SelectSeq(slide.shapes, LAMBDA sh : sh.kind = "chart"))

InitChart ==
    \E lay \in Decks, l \in {0, 1} : Holds(add_slide(Fresh(lay), PyInt(l)).p)

AddBarChart(k, categories, series_data, has_legend) ==
    /\ ChartCount(slides[k]) < MaxCharts
    /\ Commit(OnSlide(Prs, k, add_bar_chart(slides[k], categories, series_data,
                                            "COLUMN_CLUSTERED", has_legend)),
              "add_bar_chart",
              [slide |-> k, categories |-> categories, series |-> series_data])

AddLineChart(k, categories, series_data) ==
    /\ ChartCount(slides[k]) < MaxCharts
    /\ Commit(OnSlide(Prs, k, add_line_chart(slides[k], categories, series_data)),
              "add_line_chart",
              [slide |-> k, categories |-> categories, series |-> series_data])

AddPieChart(k, categories, values) ==
    /\ ChartCount(slides[k]) < MaxCharts
    /\ Commit(OnSlide(Prs, k, add_pie_chart(slides[k], categories, values)),
              "add_pie_chart",
              [slide |-> k, categories |-> categories, values |-> values])

NextChart ==
    \/ \E k \in 1..Len(slides), n \in 0..MaxCats, lg \in BOOLEAN :
            \E sd \in SeriesMaps(n) : AddBarChart(k, Categories(n), sd, lg)
    \/ \E k \in 1..Len(slides), n \in 0..MaxCats :
            \E sd \in SeriesMaps(n) : AddLineChart(k, Categories(n), sd)
    \/ \E k \in 1..Len(slides), n \in 0..MaxCats :
            \E m \in Lengths(n) : AddPieChart(k, Categories(n), Values(m))

SpecChart == InitChart /\ [][NextChart]_vars

----------------------------------------------------------------------------
(* Interpreting a specification on a freshly loaded presentation *)

PyList(items) == [t |-> "list", v |-> items]

T_T == <<"T">>
T_S == <<"S">>
T_X == <<"X">>
T_Y == <<"Y">>
T_Z == <<"Z">>
T_a == <<"a">>
T_b == <<"b">>
T_Name == <<"N","a","m","e">>
T_Value == <<"V","a","l","u","e">>
T_ItemA == <<"I","t","e","m"," ","A">>
T_note == <<"s","a","y">>

\* an entry that carries no key; the samples set the keys they carry
BaseEntry ==
    [keys |-> {}, type |-> "", title |-> <<>>, subtitle |-> <<>>, layout |-> None,
     bullets |-> None, image |-> <<>>, image_left |-> None, image_top |-> None,
     image_width |-> None, image_height |-> None, data |-> <<>>, headers |-> None,
     chart_type |-> "", categories |-> <<>>, series |-> <<>>, path |-> <<>>,
     left |-> None, top |-> None, width |-> None, height |-> None,
     note |-> <<>>, placeholder_images |-> <<>>]

EntrySamples == <<
    \* 1: {type: content, title: X, bullets: [a, b]}
    [BaseEntry EXCEPT !.keys = {"type", "title", "bullets"}, !.type = "content",
                      !.title = T_X, !.bullets = PyList(<<T_a, T_b>>)],
    \* 2: {title: Y, bullets: [b]}
    [BaseEntry EXCEPT !.keys = {"title", "bullets"}, !.title = T_Y,
                      !.bullets = PyList(<<T_b>>)],
    \* 3: {type: content, title: Z, bullets: [a], layout: 6}
    [BaseEntry EXCEPT !.keys = {"type", "title", "bullets", "layout"}, !.type = "content",
                      !.title = T_Z, !.bullets = PyList(<<T_a>>), !.layout = PyInt(6)],
    \* 4: {type: title, title: Z, subtitle: S}
    [BaseEntry EXCEPT !.keys = {"type", "title", "subtitle"}, !.type = "title",
                      !.title = T_Z, !.subtitle = T_S],
    \* 5: {type: section, title: Y}
    [BaseEntry EXCEPT !.keys = {"type", "title"}, !.type = "section", !.title = T_Y],
    \* 6: {type: table, title: X, headers: [Name, Value], data: [[Item A, 100]]}
    [BaseEntry EXCEPT !.keys = {"type", "title", "headers", "data"}, !.type = "table",
                      !.title = T_X, !.headers = PyList(<<PyStr(T_Name), PyStr(T_Value)>>),
                      !.data = <<<<PyStr(T_ItemA), PyInt(100)>>>>],
    \* 7: {type: chart, chart_type: pie, categories: [Q1, Q2], series: {Rev: [10, 20]}}
    [BaseEntry EXCEPT !.keys = {"type", "chart_type", "categories", "series"},
                      !.type = "chart", !.chart_type = "pie", !.categories = Categories(2),
                      !.series = <<[name |-> SeriesNames[1], values |-> Values(2)]>>],
    \* 8: {type: image, title: Y, image: logo.png}
    [BaseEntry EXCEPT !.keys = {"type", "title", "image"}, !.type = "image",
                      !.title = T_Y, !.image = F_logo],
    \* 9: {type: blank, note: say}
    [BaseEntry EXCEPT !.keys = {"type", "note"}, !.type = "blank", !.note = T_note],
    \* 10: {type: video, title: X, note: say, placeholder_images: {"13": logo.png}}
    [BaseEntry EXCEPT !.keys = {"type", "title", "note", "placeholder_images"},
                      !.type = "video", !.title = T_X, !.note = T_note,
                      !.placeholder_images = <<[key |-> PyStr(<<"1","3">>), path |-> F_logo]>>],
    \* 11: {type: content, title: Z, note: say, placeholder_images: {"13": logo.png}}
    [BaseEntry EXCEPT !.keys = {"type", "title", "note", "placeholder_images"},
                      !.type = "content", !.title = T_Z, !.note = T_note,
                      !.placeholder_images = <<[key |-> PyStr(<<"1","3">>), path |-> F_logo]>>],
    \* 12: {type: content, title: X, bullets: [a], note: say,
    \*      placeholder_images: {"x": logo.png}}
    [BaseEntry EXCEPT !.keys = {"type", "title", "bullets", "note", "placeholder_images"},
                      !.type = "content", !.title = T_X, !.bullets = PyList(<<T_a>>),
                      !.note = T_note,
                      !.placeholder_images = <<[key |-> PyStr(<<"x">>), path |-> F_logo]>>],
    \* 13: {type: content, title: Y, image: logo.png, image_left: "abc"}
    [BaseEntry EXCEPT !.keys = {"type", "title", "image", "image_left"},
                      !.type = "content", !.title = T_Y, !.image = F_logo,
                      !.image_left = PyStr(<<"a", "b", "c">>)],
    \* 14: {type: content, title: Z, layout: Photo, bullets: [a],
    \*      placeholder_images: {"13": logo.png}}
    [BaseEntry EXCEPT !.keys = {"type", "title", "layout", "bullets",
                                "placeholder_images"},
                      !.type = "content", !.title = T_Z, !.layout = PyStr(N_Photo),
                      !.bullets = PyList(<<T_a>>),
                      !.placeholder_images = <<[key |-> PyStr(<<"1","3">>), path |-> F_logo]>>],
    \* 15: {type: content, title: X, image: missing.png}
    [BaseEntry EXCEPT !.keys = {"type", "title", "image"}, !.type = "content",
                      !.title = T_X, !.image = F_missing],
    \* 16: {type: chart, title: X, categories: [Q1, Q2], series: {Rev: [10]}}
    [BaseEntry EXCEPT !.keys = {"type", "title", "categories", "series"},
                      !.type = "chart", !.title = T_X, !.categories = Categories(2),
                      !.series = <<[name |-> SeriesNames[1], values |-> Values(1)]>>]
>>

TopSamples == <<
    \* no title
    [keys |-> {"slides"}, title |-> <<>>, subtitle |-> <<>>, slides |-> <<>>],
    \* {title: T, subtitle: S}
    [keys |-> {"title", "subtitle", "slides"}, title |-> T_T, subtitle |-> T_S,
     slides |-> <<>>],
    \* {title: "", subtitle: S}
    [keys |-> {"title", "subtitle", "slides"}, title |-> <<>>, subtitle |-> T_S,
     slides |-> <<>>],
    \* {title: T}
    [keys |-> {"title", "slides"}, title |-> T_T, subtitle |-> <<>>, slides |-> <<>>]
>>

InitBuild == \E lay \in Decks : Loaded(lay)

BuildCli(spec) ==
    /\ last.op = "init"
    /\ Commit(cli_build_from_spec(Prs, spec), "cli_build_from_spec", [spec |-> spec])

BuildApi(spec) ==
    /\ last.op = "init"
    /\ Commit(api_build_from_spec(Prs, spec), "api_build_from_spec", [spec |-> spec])

\* one specification is built on a freshly loaded presentation
NextBuild ==
    \/ /\ last.op = "init"
       /\ \E t \in 1..Len(TopSamples), n \in 0..MaxEntries :
            \E pick \in [1..n -> 1..Len(EntrySamples)] :
               BuildCli([TopSamples[t] EXCEPT
                           !.slides = [j \in 1..n |-> EntrySamples[pick[j]]]])
    \/ /\ last.op = "init"
       /\ \E t \in 1..Len(TopSamples), n \in 0..MaxEntries :
            \E pick \in [1..n -> 1..Len(EntrySamples)] :
               BuildApi([TopSamples[t] EXCEPT
                           !.slides = [j \in 1..n |-> EntrySamples[pick[j]]]])

SpecBuild == InitBuild /\ [][NextBuild]_vars

----------------------------------------------------------------------------
(* Claims *)

\* C1: remove_slide(i) with 0 <= i < N leaves the N-1 slides of the old
\* sequence with element i deleted (the slide formerly at i+1 is at i, the
\* others keep their order); with i < 0 or i >= N it raises IndexError and the
\* slide sequence is unchanged.
C1_RemoveSlide ==
    last.op = "remove_slide" =>
        LET i == last.args.index
            old == last.pre.slides
            N == Len(old)
        IN  IF 0 <= i /\ i < N
            THEN /\ last.err = NoErr
                 /\ Len(slides) = N - 1
                 /\ \A j \in 1..(N - 1) :
                        slides[j] = IF j <= i THEN old[j] ELSE old[j + 1]
            ELSE /\ last.err.kind = "IndexError"
                 /\ slides = old

\* a slide in the middle of a three-slide deck was removed and its successor
\* moved down
C1_Witness ==
    /\ last.op = "remove_slide"
    /\ last.args.index = 1
    /\ Len(last.pre.slides) = 3
    /\ Len(slides) = 2
    /\ slides[2] = last.pre.slides[3]
    /\ slides[2] # last.pre.slides[2]

\* C2: add_slide(layout) resolves the layout by in-range integer index or by
\* case-insensitive name, appends exactly one slide bound to that layout at the
\* end and leaves the earlier slides in place; with an out-of-range index or a
\* name matching no layout it raises an error and the slides are unchanged.
C2_AddSlide ==
    last.op = "add_slide" =>
        LET a == last.args.layout
            old == last.pre.slides
            byIndex == a.t = "int" /\ 0 <= a.v /\ a.v < Len(layouts)
            byName == /\ a.t = "str"
                      /\ \E i \in 1..Len(layouts) : lower(layouts[i].name) = lower(a.v)
        IN  IF byIndex \/ byName
            THEN /\ last.err = NoErr
                 /\ Len(slides) = Len(old) + 1
                 /\ SubSeq(slides, 1, Len(old)) = old
                 /\ LET new == slides[Len(slides)]
                    IN  /\ new.layout \in 0..(Len(layouts) - 1)
                        /\ byIndex => new.layout = a.v
                        /\ byName => lower(layouts[new.layout + 1].name) = lower(a.v)
                        /\ \A j \in 1..Len(old) : old[j].id # new.id
            ELSE /\ Failed(last.err)
                 /\ slides = old

\* a slide was appended after an existing one by a name given in another case
C2_Witness ==
    /\ last.op = "add_slide"
    /\ last.args.layout = PyStr(N_blank_lower)
    /\ last.err = NoErr
    /\ Len(last.pre.slides) >= 1
    /\ Len(slides) = Len(last.pre.slides) + 1
    /\ layouts[slides[Len(slides)].layout + 1].name # N_blank_lower

\* C3: when add_bar_chart or add_line_chart is called with some series whose
\* length differs from the number of categories, a ValueError naming such a
\* series, with its actual and the expected length, is raised and no slide's
\* shape list changes.
C3_SeriesLengthMismatch ==
    (/\ last.op \in {"add_bar_chart", "add_line_chart"}
     /\ \E i \in 1..Len(last.args.series) :
            Len(last.args.series[i].values) # Len(last.args.categories))
    => /\ last.err.kind = "ValueError"
       /\ \E i \in 1..Len(last.args.series) :
            /\ Len(last.args.series[i].values) # Len(last.args.categories)
            /\ last.err.name = last.args.series[i].name
            /\ last.err.actual = Len(last.args.series[i].values)
            /\ last.err.expected = Len(last.args.categories)
       /\ slides = last.pre.slides

\* a line chart whose second series alone is too long was refused
C3_Witness ==
    /\ last.op = "add_line_chart"
    /\ Len(last.args.series) = 2
    /\ Len(last.args.series[1].values) = Len(last.args.categories)
    /\ Len(last.args.series[2].values) > Len(last.args.categories)
    /\ last.err.kind = "ValueError"
    /\ last.err.name = SeriesNames[2]

\* C4: every chart on a slide has every series as long as its category list,
\* and an add_pie_chart call whose values list is longer or shorter than the
\* categories list raises and creates no chart.
C4_ChartSeriesLength ==
    /\ \A k \in 1..Len(slides) : \A j \in 1..Len(slides[k].shapes) :
            slides[k].shapes[j].kind = "chart" =>
                \A i \in 1..Len(slides[k].shapes[j].chart.series) :
                    Len(slides[k].shapes[j].chart.series[i].values)
                        = Len(slides[k].shapes[j].chart.categories)
    /\ (last.op = "add_pie_chart" /\ Len(last.args.values) # Len(last.args.categories))
            => Failed(last.err) /\ slides = last.pre.slides

----------------------------------------------------------------------------
(* Replacing tokens in the text of a loaded presentation *)

Alphabet == {"a", "b", "c"}

\* the texts of at most n characters
Texts(n) == UNION {[1..k -> Alphabet] : k \in 0..n}

\* the text that follows in the second run of the paragraph
SecondRuns == {<<>>, <<"b">>}

KeySamples == {<<"a">>, <<"a", "b">>, <<"c">>}
ValueSamples == {PyStr(<<>>), PyStr(<<"a">>), PyStr(<<"c">>), PyStr(<<"c", "b">>),
                 PyInt(7)}

\* the replacement dicts of n entries: distinct keys, in insertion order
MapsOf(n) ==
    {m \in [1..n -> [key : KeySamples, value : ValueSamples]] :
        \A i, j \in 1..n : i # j => m[i].key # m[j].key}

ReplacementMaps == UNION {MapsOf(n) : n \in 1..MaxPairs}

\* a slide of a template: a text box whose paragraph holds the given runs, and
\* a table (a shape without a text frame) holding the first run in its header
TemplateSlide(P, runs) ==
    With(add_slide(P, PyInt(0)).p, LAMBDA Q :
        [Q EXCEPT !.slides[1] =
            add_table([@ EXCEPT !.shapes =
                          <<[TextBox(<<>>, FALSE) EXCEPT !.paras[1].runs = runs]>>],
                      <<>>, PyList(<<PyStr(runs[1])>>)).slide])

InitReplace ==
    \E t \in Texts(MaxRunLen), u \in SecondRuns :
        Holds(TemplateSlide(Fresh(TemplateLayoutsB), <<t, u>>))

ReplacePlaceholders(replacements) ==
    /\ last.op = "init"
    /\ Commit(replace_placeholders(Prs, replacements), "replace_placeholders",
              [replacements |-> replacements, original |-> slides])

\* the same call once more, with the map of the call before
ReplacePlaceholdersAgain ==
    /\ last.op = "replace_placeholders"
    /\ Commit(replace_placeholders(Prs, last.args.replacements),
              "replace_placeholders_again", last.args)

NextReplace ==
    \/ \E m \in ReplacementMaps : ReplacePlaceholders(m)
    \/ ReplacePlaceholdersAgain

SpecReplace == InitReplace /\ [][NextReplace]_vars

\* the characters of a text
Chars(text) == {text[i] : i \in 1..Len(text)}

\* no replacement value contains any key of the map
NoValueContainsKey(m) ==
    \A i, j \in 1..Len(m) : ~Contains(str(m[i].value), m[j].key)

\* every value is non-empty and shares no character with any key
ValuesApartFromKeys(m) ==
    \A i, j \in 1..Len(m) :
        /\ str(m[i].value) # <<>>
        /\ Chars(str(m[i].value)) \cap Chars(m[j].key) = {}

\* C10 (as amended): for every presentation text and every replacement map in
\* which no replacement value contains any key of the map and, further, every
\* value is non-empty and has no character in common with any key, applying
\* replace_placeholders twice with that map leaves every run's text equal to
\* what one application leaves.
C10_ReplaceTwiceApart ==
    (/\ last.op = "replace_placeholders_again"
     /\ NoValueContainsKey(last.args.replacements)
     /\ ValuesApartFromKeys(last.args.replacements))
    => slides = last.pre.slides

\* a two-entry map with values apart from the keys was applied twice, and the
\* first application changed the text
C10_Witness ==
    /\ last.op = "replace_placeholders_again"
    /\ Len(last.args.replacements) = 2
    /\ NoValueContainsKey(last.args.replacements)
    /\ ValuesApartFromKeys(last.args.replacements)
    /\ last.pre.slides # last.args.original
    /\ slides = last.pre.slides

\* C10 (as claimed): for every presentation text and every replacement map in
\* which no replacement value contains any key of the map, applying
\* replace_placeholders twice with that map leaves every run's text equal to
\* what one application leaves.
C10_ReplaceTwice ==
    (/\ last.op = "replace_placeholders_again"
     /\ NoValueContainsKey(last.args.replacements))
    => slides = last.pre.slides

----------------------------------------------------------------------------
(* Claims about the interpreters *)

IsBuild == last.op \in {"cli_build_from_spec", "api_build_from_spec"}

KnownTypes == {"title", "section", "content", "table", "chart", "image", "blank"}

TypeOf(e) == Get(e, "type", "content")

RECURSIVE JoinLines(_)
JoinLines(texts) ==
    IF texts = <<>> THEN <<>>
    ELSE IF Len(texts) = 1 THEN texts[1]
    ELSE texts[1] \o <<"\n">> \o JoinLines(Tail(texts))

\* shape.text: the paragraphs joined by line feeds
ShapeText(shape) == JoinLines(ParaTexts(shape))

\* the text frames of the placeholders of a slide with the given idx
PlaceholdersAt(slide, idx) ==
    SelectSeq(slide.shapes, LAMBDA sh : IsPlaceholderWithIdx(sh, idx))

\* the title a slide shows: its title placeholder, or else its bold text box
SlideTitle(slide) ==
    IF TitleIndex(slide) > 0 THEN ShapeText(slide.shapes[TitleIndex(slide)])
    ELSE IF \E j \in 1..Len(slide.shapes) :
                slide.shapes[j].kind = "textbox" /\ slide.shapes[j].paras[1].bold
         THEN ShapeText(slide.shapes[CHOOSE j \in 1..Len(slide.shapes) :
                slide.shapes[j].kind = "textbox" /\ slide.shapes[j].paras[1].bold])
         ELSE <<>>

\* an entry of type content that carries a title and a non-empty bullets list,
\* and nothing else
PlainContent(e) ==
    /\ TypeOf(e) = "content"
    /\ e.keys \subseteq {"type", "title", "bullets"}
    /\ "title" \in e.keys
    /\ Truthy(Get(e, "bullets", None))

\* C5: cli._build_from_spec on a blank presentation, given a top-level title T,
\* subtitle S and K content entries (each with a title and a non-empty bullets
\* list), yields exactly 1 + K slides: slide 0 is bound to layout 0 with title
\* text T and subtitle text S, and slide j+1 has the j-th entry's title and a
\* body placeholder whose paragraphs are that entry's bullets in order.
C5_TitleAndContentSlides ==
    (/\ last.op = "cli_build_from_spec"
     /\ layouts = DefaultLayouts
     /\ last.pre.slides = <<>>
     /\ "title" \in last.args.spec.keys
     /\ \A j \in 1..Len(last.args.spec.slides) : PlainContent(last.args.spec.slides[j]))
    => /\ last.err = NoErr
       /\ Len(slides) = 1 + Len(last.args.spec.slides)
       /\ slides[1].layout = 0
       /\ Len(PlaceholdersAt(slides[1], 0)) = 1
       /\ ShapeText(PlaceholdersAt(slides[1], 0)[1]) = last.args.spec.title
       /\ Len(PlaceholdersAt(slides[1], 1)) = 1
       /\ ShapeText(PlaceholdersAt(slides[1], 1)[1]) = Get(last.args.spec, "subtitle", <<>>)
       /\ \A j \in 1..Len(last.args.spec.slides) :
            /\ Len(PlaceholdersAt(slides[j + 1], 0)) = 1
            /\ ShapeText(PlaceholdersAt(slides[j + 1], 0)[1]) = last.args.spec.slides[j].title
            /\ Len(PlaceholdersAt(slides[j + 1], 1)) = 1
            /\ PlaceholdersAt(slides[j + 1], 1)[1].ptype \in {PH_BODY, PH_OBJECT}
            /\ ParaTexts(PlaceholdersAt(slides[j + 1], 1)[1])
                    = last.args.spec.slides[j].bullets.v

\* scenario A with two content entries: three slides, the second entry's two
\* bullets in the body of the last
C5_Witness ==
    /\ last.op = "cli_build_from_spec"
    /\ layouts = DefaultLayouts
    /\ last.args.spec.title = T_T
    /\ last.args.spec.subtitle = T_S
    /\ "subtitle" \in last.args.spec.keys
    /\ Len(last.args.spec.slides) = 2
    /\ \A j \in 1..2 : PlainContent(last.args.spec.slides[j])
    /\ last.args.spec.slides[2].bullets.v = <<T_a, T_b>>
    /\ Len(slides) = 3
    /\ ParaTexts(PlaceholdersAt(slides[3], 1)[1]) = <<T_a, T_b>>

\* the tables of a slide
TablesOf(slide) == SelectSeq(slide.shapes, LAMBDA sh : sh.kind = "table")

\* the charts of a slide
ChartsOf(slide) == SelectSeq(slide.shapes, LAMBDA sh : sh.kind = "chart")

\* C6: interpreting an entry of type table with headers H and data D appends
\* one slide carrying one table shape with len(D)+1 rows and len(H) columns,
\* whose row 0 holds the headers and whose cell (r+1, c) holds str(D[r][c]);
\* the interpretation completes without error.
C6_TableEntry ==
    (/\ IsBuild
     /\ "title" \notin last.args.spec.keys
     /\ Len(last.args.spec.slides) = 1
     /\ TypeOf(last.args.spec.slides[1]) = "table"
     /\ Truthy(Get(last.args.spec.slides[1], "headers", None)))
    => LET H == last.args.spec.slides[1].headers.v
           D == last.args.spec.slides[1].data
       IN  /\ last.err = NoErr
           /\ Len(slides) = Len(last.pre.slides) + 1
           /\ Len(TablesOf(slides[Len(slides)])) = 1
           /\ LET cells == TablesOf(slides[Len(slides)])[1].cells
              IN  /\ Len(cells) = Len(D) + 1
                  /\ \A r \in 1..Len(cells) : Len(cells[r]) = Len(H)
                  /\ \A c \in 1..Len(H) : cells[1][c].text = str(H[c])
                  /\ \A r \in 1..Len(D) : \A c \in 1..Len(H) :
                        c <= Len(D[r]) => cells[r + 1][c].text = str(D[r][c])

\* C7: interpreting an entry of type chart with chart_type pie, categories C
\* and a series map appends one slide carrying one pie chart that has exactly
\* one series, whose values are those of the first series of the map, with the
\* legend at the right; the interpretation completes without error.
C7_PieEntry ==
    (/\ IsBuild
     /\ "title" \notin last.args.spec.keys
     /\ Len(last.args.spec.slides) = 1
     /\ TypeOf(last.args.spec.slides[1]) = "chart"
     /\ Get(last.args.spec.slides[1], "chart_type", "bar") = "pie"
     /\ Get(last.args.spec.slides[1], "series", <<>>) # <<>>)
    => /\ last.err = NoErr
       /\ Len(slides) = Len(last.pre.slides) + 1
       /\ Len(ChartsOf(slides[Len(slides)])) = 1
       /\ LET chart == ChartsOf(slides[Len(slides)])[1].chart
          IN  /\ chart.type = "PIE"
              /\ chart.categories = last.args.spec.slides[1].categories
              /\ Len(chart.series) = 1
              /\ chart.series[1].values = last.args.spec.slides[1].series[1].values
              /\ chart.has_legend
              /\ chart.legend_position = "RIGHT"

\* the entries that are to produce a slide
KnownEntries(spec) == SelectSeq(spec.slides, LAMBDA e : TypeOf(e) \in KnownTypes)

\* slide is the slide the entry e is to produce
SlideOf(slide, e) ==
    CASE TypeOf(e) = "blank" -> slide.layout = 6
      [] TypeOf(e) = "title" -> slide.layout = 0 /\ SlideTitle(slide) = Get(e, "title", <<>>)
      [] TypeOf(e) = "section" -> slide.layout = 2 /\ SlideTitle(slide) = Get(e, "title", <<>>)
      [] TypeOf(e) = "table" ->
            SlideTitle(slide) = Get(e, "title", <<>>) /\ Len(TablesOf(slide)) = 1
      [] TypeOf(e) = "chart" ->
            SlideTitle(slide) = Get(e, "title", <<>>) /\ Len(ChartsOf(slide)) = 1
      [] OTHER -> SlideTitle(slide) = Get(e, "title", <<>>)

\* C8: on a blank presentation the slides the interpreter appends are, in
\* order: one title slide first if and only if the specification carries a
\* title field, then exactly one slide per entry whose type is one of title,
\* section, content, table, chart, image, blank (absent type counting as
\* content), in declaration order.
C8_SlidesInOrder ==
    (IsBuild /\ layouts = DefaultLayouts /\ last.pre.slides = <<>>)
    => LET spec == last.args.spec
           lead == IF "title" \in spec.keys THEN 1 ELSE 0
           made == KnownEntries(spec)
       IN  /\ Len(slides) = lead + Len(made)
           /\ lead = 1 => slides[1].layout = 0 /\ SlideTitle(slides[1]) = spec.title
           /\ \A j \in 1..Len(made) : SlideOf(slides[lead + j], made[j])

\* the specification without the entry at position k (1-based)
WithoutEntry(spec, k) == [spec EXCEPT !.slides = DeleteAt(@, k - 1)]

\* the specification cut after its first n entries
FirstEntries(spec, n) == [spec EXCEPT !.slides = SubSeq(@, 1, n)]

\* what the interpreter that made this state leaves for another specification
Rebuild(spec) ==
    IF last.op = "cli_build_from_spec"
    THEN cli_build_from_spec([layouts |-> layouts, slides |-> last.pre.slides,
                              rels |-> last.pre.rels], spec)
    ELSE api_build_from_spec([layouts |-> layouts, slides |-> last.pre.slides,
                              rels |-> last.pre.rels], spec)

\* C9: an entry whose type is none of the seven known types produces no slide
\* and raises no error, also when it carries note or placeholder_images: the
\* interpreter is where it was before the entry (same slides, no error), and
\* the whole run leaves what the specification without that entry leaves.
C9_UnknownTypeSkipped ==
    IsBuild =>
        \A k \in 1..Len(last.args.spec.slides) :
            TypeOf(last.args.spec.slides[k]) \notin KnownTypes =>
                /\ Rebuild(FirstEntries(last.args.spec, k))
                        = Rebuild(FirstEntries(last.args.spec, k - 1))
                /\ slides = Rebuild(WithoutEntry(last.args.spec, k)).p.slides
                /\ last.err = Rebuild(WithoutEntry(last.args.spec, k)).err

\* an unknown entry carrying note and placeholder_images came first, and the
\* content entry after it made its slide
C9_Witness ==
    /\ last.op = "cli_build_from_spec"
    /\ "title" \notin last.args.spec.keys
    /\ Len(last.args.spec.slides) = 2
    /\ TypeOf(last.args.spec.slides[1]) = "video"
    /\ {"note", "placeholder_images"} \subseteq last.args.spec.slides[1].keys
    /\ PlainContent(last.args.spec.slides[2])
    /\ last.err = NoErr
    /\ Len(slides) = 1
    /\ SlideTitle(slides[1]) = last.args.spec.slides[2].title

----------------------------------------------------------------------------
(* Claims about replace_placeholders on runs and cells *)

\* what one call with the map m is to make of one run's text
RunReplaced(before, after, m) ==
    /\ (\A i \in 1..Len(m) : ~Contains(before, m[i].key)) => after = before
    /\ (NoValueContainsKey(m) /\ ValuesApartFromKeys(m)) =>
            \A i \in 1..Len(m) : ~Contains(after, m[i].key)
    /\ Len(m) = 1 => after = replace(before, m[1].key, str(m[1].value))

\* the runs of the text frames of the slides are replaced
TextFrameRunsReplaced(before, after, m) ==
    \A i \in 1..Len(after) : \A j \in 1..Len(after[i].shapes) :
        \A q \in 1..Len(after[i].shapes[j].paras) :
            \A r \in 1..Len(after[i].shapes[j].paras[q].runs) :
                RunReplaced(before[i].shapes[j].paras[q].runs[r],
                            after[i].shapes[j].paras[q].runs[r], m)

\* the texts of the table cells of the slides are replaced
TableCellsReplaced(before, after, m) ==
    \A i \in 1..Len(after) : \A j \in 1..Len(after[i].shapes) :
        \A r \in 1..Len(after[i].shapes[j].cells) :
            \A c \in 1..Len(after[i].shapes[j].cells[r]) :
                RunReplaced(before[i].shapes[j].cells[r][c].text,
                            after[i].shapes[j].cells[r][c].text, m)

\* C11: replace_placeholders(m) visits every text run of every slide, runs
\* inside table cells included, and replaces every occurrence of every key of
\* m found inside a single run; a token split over two runs is left as it is
\* and runs containing no key are unchanged.
C11_EveryRunReplaced ==
    last.op = "replace_placeholders" =>
        /\ TextFrameRunsReplaced(last.pre.slides, slides, last.args.replacements)
        /\ TableCellsReplaced(last.pre.slides, slides, last.args.replacements)

----------------------------------------------------------------------------
(* The builder of a slide: subtitle, bullets, table, notes, picture        *)
(* placeholder, called one after another on the slides of a presentation   *)

\* the layouts the first slide is made from: with and without idx 1, with a
\* picture placeholder at idx 1 and at idx 13
SlideLayoutArgs == {0, 1, 3, 6, 8}

BulletArgs ==
    {[items |-> <<T_a>>, levels |-> <<>>],
     [items |-> <<T_b, T_a>>, levels |-> <<>>],
     [items |-> <<T_b, T_a>>, levels |-> <<1>>]}

TableArgs ==
    {[data |-> d, headers |-> h] :
        d \in {<<<<PyStr(T_ItemA), PyInt(100)>>>>,
               <<<<PyStr(T_ItemA)>>, <<PyStr(T_ItemA), PyInt(100), PyStr(T_b)>>>>},
        h \in {None, PyList(<<PyStr(T_Name), PyStr(T_Value)>>)}}

\* two slides, the second one with speaker notes
InitSlide ==
    \E lay \in Decks, l \in SlideLayoutArgs :
        /\ l < Len(lay)
        /\ Holds(With(add_slide(add_slide(Fresh(lay), PyInt(l)).p, PyInt(0)).p, LAMBDA P :
                    OnSlide(P, 2, add_note(P.slides[2], T_b)).p))

\* the number of the call being made
ThisCall == IF last.op = "init" THEN 1 ELSE last.args.call + 1

SetSubtitle(k, text) ==
    /\ ThisCall <= MaxCalls
    /\ Commit(OnSlide(Prs, k, set_subtitle(slides[k], text)), "set_subtitle",
              [call |-> ThisCall, slide |-> k, text |-> text])

AddBullets(k, items, levels) ==
    /\ ThisCall <= MaxCalls
    /\ Commit(OnSlide(Prs, k, add_bullets(slides[k], items, levels)), "add_bullets",
              [call |-> ThisCall, slide |-> k, items |-> items, levels |-> levels])

AddTable(k, data, headers) ==
    /\ ThisCall <= MaxCalls
    /\ Commit(OnSlide(Prs, k, add_table(slides[k], data, headers)), "add_table",
              [call |-> ThisCall, slide |-> k, data |-> data, headers |-> headers])

AddNote(k, text) ==
    /\ ThisCall <= MaxCalls
    /\ Commit(OnSlide(Prs, k, add_note(slides[k], text)), "add_note",
              [call |-> ThisCall, slide |-> k, text |-> text])

FillPicturePlaceholder(k, image_path, placeholder_idx) ==
    /\ ThisCall <= MaxCalls
    /\ Commit(OnSlide(Prs, k, fill_picture_placeholder(slides[k], image_path,
                                                       placeholder_idx)),
              "fill_picture_placeholder",
              [call |-> ThisCall, slide |-> k, image_path |-> image_path,
               placeholder_idx |-> placeholder_idx])

NextSlide ==
    \/ SetSubtitle(1, T_S)
    \/ \E b \in BulletArgs : AddBullets(1, b.items, b.levels)
    \/ \E t \in TableArgs : AddTable(1, t.data, t.headers)
    \/ \E k \in 1..Len(slides), text \in {T_note, T_a} : AddNote(k, text)
    \/ \E path \in {F_logo, F_missing}, idx \in {1, 13} :
            FillPicturePlaceholder(1, path, idx)

SpecSlide == InitSlide /\ [][NextSlide]_vars

----------------------------------------------------------------------------
(* Claims about the builder of a slide *)

\* the slide the last builder call worked on, before and after the call
SlideBefore == last.pre.slides[last.args.slide]
SlideAfter == slides[last.args.slide]

\* position of the first placeholder with idx 1 on a slide, 0 when none
BodyIndex(slide) == FirstIndex(slide.shapes, LAMBDA sh : IsPlaceholderWithIdx(sh, 1))

\* every slide but the one the last call worked on is as it was
OtherSlidesKept ==
    /\ Len(slides) = Len(last.pre.slides)
    /\ \A j \in 1..Len(slides) : j # last.args.slide => slides[j] = last.pre.slides[j]

\* C12: filling a picture placeholder goes by the placeholder's idx key: for
\* an idx present on the slide the placeholder receives the supplied image and
\* no error is raised; for an idx absent from the slide a placeholder-not-found
\* error is raised and the slide's shape list is unchanged.
C12_FillPicturePlaceholder ==
    (last.op = "fill_picture_placeholder" /\ last.args.image_path \in Files)
    => IF \E j \in 1..Len(SlideBefore.shapes) :
                IsPlaceholderWithIdx(SlideBefore.shapes[j], last.args.placeholder_idx)
       THEN /\ last.err = NoErr
            /\ Len(SlideAfter.shapes) = Len(SlideBefore.shapes)
            /\ \A j \in 1..Len(SlideBefore.shapes) :
                    IsPlaceholderWithIdx(SlideBefore.shapes[j], last.args.placeholder_idx)
                        => SlideAfter.shapes[j].image = last.args.image_path
       ELSE /\ last.err.kind \in {"KeyError", "PlaceholderNotFound"}
            /\ SlideAfter.shapes = SlideBefore.shapes

\* C15: set_subtitle(text) sets the text of the slide's placeholder with idx 1
\* when the slide has one, and otherwise changes nothing on the slide and
\* raises nothing; it never changes a placeholder whose idx is not 1.
C15_SetSubtitle ==
    last.op = "set_subtitle" =>
        /\ last.err = NoErr
        /\ Len(SlideAfter.shapes) = Len(SlideBefore.shapes)
        /\ \A j \in 1..Len(SlideBefore.shapes) :
                IF IsPlaceholderWithIdx(SlideBefore.shapes[j], 1)
                THEN ShapeText(SlideAfter.shapes[j]) = last.args.text
                ELSE SlideAfter.shapes[j] = SlideBefore.shapes[j]
        /\ SlideAfter.notes = SlideBefore.notes
        /\ OtherSlidesKept

\* C16: after add_bullets(items) with a non-empty items list the target text
\* frame holds exactly len(items) paragraphs whose texts are the items in
\* order, whatever it held before: the target is the placeholder with idx 1
\* when the slide has one with a text frame (no shape is added, no other shape
\* changes), and otherwise a text box added at the end of the shapes.
C16_AddBullets ==
    (last.op = "add_bullets" /\ last.args.items # <<>>)
    => /\ last.err = NoErr
       /\ IF BodyIndex(SlideBefore) > 0 /\ SlideBefore.shapes[BodyIndex(SlideBefore)].has_text_frame
          THEN /\ Len(SlideAfter.shapes) = Len(SlideBefore.shapes)
               /\ ParaTexts(SlideAfter.shapes[BodyIndex(SlideBefore)]) = last.args.items
               /\ \A j \in 1..Len(SlideBefore.shapes) :
                     j # BodyIndex(SlideBefore) => SlideAfter.shapes[j] = SlideBefore.shapes[j]
          ELSE /\ Len(SlideAfter.shapes) = Len(SlideBefore.shapes) + 1
               /\ SubSeq(SlideAfter.shapes, 1, Len(SlideBefore.shapes)) = SlideBefore.shapes
               /\ SlideAfter.shapes[Len(SlideAfter.shapes)].kind = "textbox"
               /\ ParaTexts(SlideAfter.shapes[Len(SlideAfter.shapes)]) = last.args.items
       /\ OtherSlidesKept

\* the placeholder with idx 1 held two paragraphs and holds the one item now
C16_Witness ==
    /\ last.op = "add_bullets"
    /\ last.args.items = <<T_a>>
    /\ BodyIndex(SlideBefore) > 0
    /\ ParaTexts(SlideBefore.shapes[BodyIndex(SlideBefore)]) = <<T_b, T_a>>
    /\ ParaTexts(SlideAfter.shapes[BodyIndex(SlideBefore)]) = <<T_a>>

\* C17: in add_table the column count is len(headers) when headers are given
\* (a non-empty list) and len(data[0]) otherwise; of every data row the values
\* at column positions at or beyond the column count are dropped without
\* error, the cells a shorter row does not reach stay empty without error, and
\* every written cell holds str(value).
C17_AddTable ==
    (last.op = "add_table" /\ (Truthy(last.args.headers) \/ last.args.data # <<>>))
    => LET H == last.args.headers
           D == last.args.data
           cols == IF Truthy(H) THEN Len(H.v) ELSE Len(D[1])
           off == IF Truthy(H) THEN 1 ELSE 0
       IN  /\ last.err = NoErr
           /\ Len(SlideAfter.shapes) = Len(SlideBefore.shapes) + 1
           /\ SlideAfter.shapes[Len(SlideAfter.shapes)].kind = "table"
           /\ LET cells == SlideAfter.shapes[Len(SlideAfter.shapes)].cells
              IN  /\ Len(cells) = Len(D) + off
                  /\ \A r \in 1..Len(cells) : Len(cells[r]) = cols
                  /\ off = 1 => \A c \in 1..cols : cells[1][c].text = str(H.v[c])
                  /\ \A r \in 1..Len(D) : \A c \in 1..cols :
                        cells[r + off][c].text =
                            IF c <= Len(D[r]) THEN str(D[r][c]) ELSE <<>>

\* a table of two columns was made from a row of one value and a row of three
C17_Witness ==
    /\ last.op = "add_table"
    /\ Truthy(last.args.headers)
    /\ Len(last.args.headers.v) = 2
    /\ Len(last.args.data) = 2
    /\ Len(last.args.data[1]) = 1
    /\ Len(last.args.data[2]) = 3
    /\ last.err = NoErr
    /\ Len(SlideAfter.shapes[Len(SlideAfter.shapes)].cells) = 3
    /\ SlideAfter.shapes[Len(SlideAfter.shapes)].cells[2][2].text = <<>>
    /\ SlideAfter.shapes[Len(SlideAfter.shapes)].cells[3][2].text = <<"1", "0", "0">>

\* C18: a slide has at most one speaker-notes text: after add_note its notes
\* text equals the text of that call, whatever notes the slide had before
\* (earlier texts are overwritten, not appended), and the notes of every
\* other slide are unchanged.
C18_AddNote ==
    last.op = "add_note" =>
        /\ last.err = NoErr
        /\ SlideAfter.notes = [has |-> TRUE, text |-> last.args.text]
        /\ SlideAfter.shapes = SlideBefore.shapes
        /\ OtherSlidesKept

\* the second add_note on the first slide replaced the text of the first call,
\* and the second slide kept its notes
C18_Witness ==
    /\ last.op = "add_note"
    /\ last.args.slide = 1
    /\ SlideBefore.notes = [has |-> TRUE, text |-> T_note]
    /\ last.args.text = T_a
    /\ SlideAfter.notes.text = T_a
    /\ slides[2].notes.text = T_b

----------------------------------------------------------------------------
(* Claims about failures and notes in the interpreters *)

\* the interpreter that made this state, after the first n entries
StateAfter(n) == Rebuild(FirstEntries(last.args.spec, n))

\* the dispatch on the type of an entry by the interpreter that made this state
Dispatch(P, e) ==
    IF last.op = "cli_build_from_spec" THEN cli_dispatch(P, e, TypeOf(e))
    ELSE api_dispatch(P, e, TypeOf(e))

\* the items of placeholder_images that cli._fill_placeholder_images is handed
\* for the entry e once dispatch made a slide
FillItems(d, e) ==
    IF last.op = "cli_build_from_spec" /\ ~Failed(d.err) /\ d.builder
       /\ "placeholder_images" \in e.keys
    THEN e.placeholder_images ELSE <<>>

BadFields(e) ==
    IF TypeOf(e) = "content" /\ Get(e, "image", <<>>) # <<>>
    THEN {f \in {"image_left", "image_top", "image_width", "image_height"} :
            f \in e.keys /\ e[f] # None /\ e[f].t # "int"}
    ELSE {}

\* C14: when a field of the entry at position k of the slides list cannot be
\* coerced (a non-numeric image_left, for example), the interpreter fails
\* with an error value that carries k (0-based) and the name of the field.
C14_CoercionError ==
    IsBuild =>
        \A k \in 1..Len(last.args.spec.slides) :
            (/\ ~Failed(StateAfter(k - 1).err)
             /\ BadFields(last.args.spec.slides[k]) # {}
             /\ Failed(Dispatch(StateAfter(k - 1).p, last.args.spec.slides[k]).err))
            => /\ last.err.kind = "InterpretationError"
               /\ last.err.position = k - 1
               /\ last.err.field \in BadFields(last.args.spec.slides[k])

\* C20: for every entry that carries a note and whose dispatch produced a
\* slide, whatever its type, that slide's speaker notes equal the note after
\* the interpretation.
C20_NoteOnEveryType ==
    IsBuild =>
        \A k \in 1..Len(last.args.spec.slides) :
            ~Failed(StateAfter(k - 1).err) =>
                With(Dispatch(StateAfter(k - 1).p, last.args.spec.slides[k]), LAMBDA d :
                    (/\ ~Failed(d.err)
                     /\ d.builder
                     /\ "note" \in last.args.spec.slides[k].keys)
                    => slides[Len(d.p.slides)].notes
                            = [has |-> TRUE, text |-> last.args.spec.slides[k].note])

----------------------------------------------------------------------------
(* The operations of a presentation, called one after another *)

\* the number of the call being made, while calls are left
CoreCall == IF last.op = "init" THEN 1 ELSE last.args.call + 1

CallsLeft == CoreCall <= MaxCoreCalls

CoreAddSlide(layout) ==
    /\ CallsLeft
    /\ Commit(add_slide(Prs, layout), "add_slide", [call |-> CoreCall, layout |-> layout])

CoreAddTitleSlide(title, subtitle) ==
    /\ CallsLeft
    /\ Commit(add_title_slide(Prs, title, subtitle, PyInt(0)), "add_title_slide",
              [call |-> CoreCall, title |-> title, subtitle |-> subtitle])

CoreAddSectionSlide(title) ==
    /\ CallsLeft
    /\ Commit(add_section_slide(Prs, title, <<>>), "add_section_slide",
              [call |-> CoreCall, title |-> title])

CoreAddContentSlide(title, bullets) ==
    /\ CallsLeft
    /\ Commit(add_content_slide(Prs, title, bullets, None), "add_content_slide",
              [call |-> CoreCall, title |-> title, bullets |-> bullets])

CoreAddBlankSlide ==
    /\ CallsLeft
    /\ Commit(add_blank_slide(Prs), "add_blank_slide", [call |-> CoreCall])

CoreRemoveSlide(index) ==
    /\ CallsLeft
    /\ Commit(remove_slide(Prs, index), "remove_slide",
              [call |-> CoreCall, index |-> index])

CoreClearSlides ==
    /\ CallsLeft
    /\ Commit(clear_slides(Prs), "clear_slides", [call |-> CoreCall])

CoreReplacePlaceholders(replacements) ==
    /\ CallsLeft
    /\ Commit(replace_placeholders(Prs, replacements), "replace_placeholders",
              [call |-> CoreCall, replacements |-> replacements])

\* a query: the presentation stays, the index found is recorded
CoreFindContentLayout ==
    /\ CallsLeft
    /\ Commit([p |-> Prs, err |-> NoErr], "find_content_layout",
              [call |-> CoreCall, index |-> find_content_layout(Prs)])

InitCore == \E lay \in Decks : Loaded(lay)

NextCore ==
    \/ \E n \in {N_blank_lower, N_NoSuch} : CoreAddSlide(PyStr(n))
    \/ CoreAddTitleSlide(T_T, T_S)
    \/ CoreAddSectionSlide(T_Y)
    \/ CoreAddContentSlide(T_a, PyList(<<T_a, T_b>>))
    \/ CoreAddBlankSlide
    \/ \E i \in 0..1 : CoreRemoveSlide(i)
    \/ CoreClearSlides
    \/ CoreReplacePlaceholders(<<[key |-> T_a, value |-> PyStr(T_Z)]>>)
    \/ CoreFindContentLayout

SpecCore == InitCore /\ [][NextCore]_vars

\* C19: the layout collection (number, order, names and placeholder
\* descriptors of the layouts) is the same after any sequence of add_slide,
\* add_title_slide, add_section_slide, add_content_slide, add_blank_slide,
\* remove_slide, clear_slides, replace_placeholders and find_content_layout
\* calls as it was after loading: no call changes it.
C19_LayoutsKept == [][layouts' = layouts]_vars

\* a content slide was added, its text replaced, and the slide removed again
C19_Witness ==
    /\ last.op = "remove_slide"
    /\ last.err = NoErr
    /\ last.args.call = 3
    /\ Len(last.pre.slides) = 1
    /\ \E j \in 1..Len(last.pre.slides[1].shapes) :
            ShapeText(last.pre.slides[1].shapes[j]) = T_Z
    /\ slides = <<>>
    /\ layouts \in Decks

----------------------------------------------------------------------------
(* Claims about placeholder images in the interpreters *)

\* the number a str of decimal digits denotes
RECURSIVE IntValue(_)
IntValue(text) ==
    IF text = <<>> THEN 0
    ELSE IntValue(SubSeq(text, 1, Len(text) - 1)) * 10
         + (CHOOSE n \in 0..9 : Digits(n) = <<text[Len(text)]>>)

\* the idx a key of the placeholder_images mapping names
IdxOf(key) == IF key.t = "int" THEN key.v ELSE IntValue(key.v)

\* the pairs of the placeholder_images mapping of e whose idx key is an
\* integer naming a placeholder of the slide
PairsOnSlide(slide, e) ==
    {i \in 1..Len(e.placeholder_images) :
        /\ int(e.placeholder_images[i].key).ok
        /\ \E j \in 1..Len(slide.shapes) :
              IsPlaceholderWithIdx(slide.shapes[j], IdxOf(e.placeholder_images[i].key))}

\* C21: for every entry that carries a placeholder_images mapping and whose
\* dispatch produced a slide, whatever its type and whichever the entry
\* point, each (idx, image path) pair naming a placeholder of the slide has
\* put its image into that placeholder, and what dispatch put on the slide
\* (title, bullets, ...) is still there.
C21_PlaceholderImagesApplied ==
    IsBuild =>
        \A k \in 1..Len(last.args.spec.slides) :
            ~Failed(StateAfter(k - 1).err) =>
                With(Dispatch(StateAfter(k - 1).p, last.args.spec.slides[k]), LAMBDA d :
                    (/\ ~Failed(d.err)
                     /\ d.builder
                     /\ "placeholder_images" \in last.args.spec.slides[k].keys)
                    => \A i \in PairsOnSlide(LastSlide(d.p), last.args.spec.slides[k]) :
                        /\ Len(slides) >= Len(d.p.slides)
                        /\ Len(slides[Len(d.p.slides)].shapes) = Len(LastSlide(d.p).shapes)
                        /\ \A j \in 1..Len(LastSlide(d.p).shapes) :
                              IF IsPlaceholderWithIdx(LastSlide(d.p).shapes[j],
                                    IdxOf(last.args.spec.slides[k].placeholder_images[i].key))
                              THEN slides[Len(d.p.slides)].shapes[j].image
                                      = last.args.spec.slides[k].placeholder_images[i].path
                              ELSE slides[Len(d.p.slides)].shapes[j]
                                      = LastSlide(d.p).shapes[j])

----------------------------------------------------------------------------
(* Templates of any shape: find_content_layout on the layouts of a template *)

N_TitleAmpContentUpper == <<"T","I","T","L","E"," ","&"," ","C","O","N","T","E","N","T">>
N_TitleCommaContent == <<"T","i","t","l","e",","," ","C","o","n","t","e","n","t">>
N_MyTitleAndContent == <<"M","y"," ">> \o N_TitleAndContent
N_TitleAndContentCaption == N_TitleAndContent \o <<" ","C","a","p","t","i","o","n">>

\* the most layouts of a template drawn
MaxLayouts == 2

\* layout names a template may carry: the three exact names in some case, a
\* name that only contains "title and content" and ends with "content", a name
\* with a word after "content", and a name with neither
LayoutNames ==
    {N_TitleAndContent, N_TitleAmpContentUpper, N_TitleCommaContent,
     N_MyTitleAndContent, N_TitleAndContentCaption, N_Blank}

\* placeholder sets a layout may carry
LayoutPlaceholders ==
    {<<Ph(0, PH_TITLE), Ph(1, PH_OBJECT)>>,
     <<Ph(0, PH_CENTER_TITLE), Ph(1, PH_SUBTITLE), Ph(2, PH_BODY)>>,
     <<Ph(0, PH_CENTER_TITLE), Ph(1, PH_BODY)>>,
     <<Ph(0, PH_TITLE)>>}

LayoutPool == [name : LayoutNames, placeholders : LayoutPlaceholders]

\* PowerPresentation(template) for a template of up to MaxLayouts layouts
InitLayout ==
    \E n \in 0..MaxLayouts : \E lay \in [1..n -> LayoutPool] : Loaded(lay)

\* ppt.find_content_layout() on the presentation just loaded
FindContentLayout ==
    /\ last.op = "init"
    /\ Commit([p |-> Prs, err |-> NoErr], "find_content_layout",
              [index |-> find_content_layout(Prs)])

\* ppt.add_content_slide(title, bullets) on the presentation just loaded
AddContentSlide(title, bullets) ==
    /\ last.op = "init"
    /\ Commit(add_content_slide(Prs, title, bullets, None), "add_content_slide",
              [title |-> title, bullets |-> bullets])

NextLayout ==
    \/ FindContentLayout
    \/ \E bullets \in {None, PyList(<<T_a>>)} : AddContentSlide(T_X, bullets)

SpecLayout == InitLayout /\ [][NextLayout]_vars

----------------------------------------------------------------------------
(* Claims about find_content_layout *)

\* rule 1: the name is, case-insensitively, one of the three exact names
ExactName(layout) ==
    lower(layout.name) \in {S_title_and_content, S_title_amp_content, S_title_comma_content}

\* rule 2: the lower-cased name contains "title and content" and ends with
\* "content"
PartialName(layout) ==
    /\ Contains(lower(layout.name), S_title_and_content)
    /\ endswith(lower(layout.name), S_content)

\* rule 3: a placeholder of semantic type title, and one of type object or body
TitleAndBody(layout) ==
    /\ \E k \in 1..Len(layout.placeholders) : layout.placeholders[k].ptype = PH_TITLE
    /\ \E k \in 1..Len(layout.placeholders) :
            layout.placeholders[k].ptype \in {PH_OBJECT, PH_BODY}

\* 0-based indices of the layouts with a property
ExactIndices == {i \in 0..(Len(layouts) - 1) : ExactName(layouts[i + 1])}
PartialIndices == {i \in 0..(Len(layouts) - 1) : PartialName(layouts[i + 1])}
NameIndices == ExactIndices \cup PartialIndices
TitleAndBodyIndices == {i \in 0..(Len(layouts) - 1) : TitleAndBody(layouts[i + 1])}

SetMin(S) == CHOOSE x \in S : \A y \in S : x <= y

\* C22: whenever some layout's name is one of the three exact names,
\* find_content_layout returns the index of the first such layout, also when a
\* layout at a lower index satisfies only rule 2.
C22_ExactNameFirst ==
    (last.op = "find_content_layout" /\ ExactIndices # {})
    => last.args.index = SetMin(ExactIndices)

\* C23: with no exact name, find_content_layout returns the lowest index of a
\* layout satisfying rule 2; a layout whose name has another word after
\* "content" is never the one selected by name; and whenever some layout
\* matches by name (rule 1 or 2) the layout returned is one that matches by
\* name, whatever the placeholders of the layouts before it.
C23_NameRules ==
    last.op = "find_content_layout" =>
        /\ (ExactIndices = {} /\ PartialIndices # {})
            => last.args.index = SetMin(PartialIndices)
        /\ NameIndices # {} =>
            /\ last.args.index \in NameIndices
            /\ layouts[last.args.index + 1].name # N_TitleAndContentCaption
            /\ last.args.index = SetMin(NameIndices)

\* a layout matched by rule 2 at index 1 was chosen although the layout at
\* index 0, named with a word after "content", has a title and an object
C23_Witness ==
    /\ last.op = "find_content_layout"
    /\ Len(layouts) = 2
    /\ layouts[1].name = N_TitleAndContentCaption
    /\ TitleAndBody(layouts[1])
    /\ layouts[2].name = N_MyTitleAndContent
    /\ ~TitleAndBody(layouts[2])
    /\ last.args.index = 1

\* C24: when no layout matches by name, find_content_layout returns the lowest
\* index of a layout with a placeholder of type title and one of type object
\* or body; a layout whose only title-like placeholders are centered-title or
\* subtitle is not selected by this rule (the fallback index 1 is returned when
\* there is no other).
C24_StructureRule ==
    (last.op = "find_content_layout" /\ NameIndices = {})
    => last.args.index =
          IF TitleAndBodyIndices # {} THEN SetMin(TitleAndBodyIndices) ELSE 1

\* C25: when no layout satisfies the name rules or the structural rule,
\* find_content_layout returns 1 whatever the number of layouts, and
\* add_content_slide without a layout on a presentation with fewer than two
\* layouts raises the layout IndexError and adds no slide.
C25_Fallback ==
    (NameIndices = {} /\ TitleAndBodyIndices = {}) =>
        /\ last.op = "find_content_layout" => last.args.index = 1
        /\ (last.op = "add_content_slide" /\ Len(layouts) < 2)
            => /\ last.err = IndexError("layout", 1)
               /\ slides = <<>>
               /\ rels = {}

----------------------------------------------------------------------------
(* Claims about the slide relationships *)

\* the relationship ids the slide id list names
ListedRels == {slides[i].rId : i \in 1..Len(slides)}

\* C26: in every state between calls, the state a failed remove_slide leaves
\* included, the slide relationships of the presentation part and the slide id
\* list name the same slides, each once: no relationship without a list
\* entry, no list entry without its relationship.
C26_RelsMatchSlides ==
    /\ rels = ListedRels
    /\ \A i, j \in 1..Len(slides) : slides[i].rId = slides[j].rId => i = j

\* the middle slide of three was removed: its relationship is gone with its
\* list entry, and the two others keep theirs
C26_Witness ==
    /\ last.op = "remove_slide"
    /\ last.err = NoErr
    /\ Len(last.pre.slides) = 3
    /\ last.args.index = 1
    /\ last.pre.slides[2].rId \in last.pre.rels
    /\ last.pre.slides[2].rId \notin rels
    /\ rels = {last.pre.slides[1].rId, last.pre.slides[3].rId}
    /\ Cardinality(rels) = 2

----------------------------------------------------------------------------
(* Claims about the two interpreters side by side *)

\* the presentation the last call started from
PrsBefore == [layouts |-> layouts, slides |-> last.pre.slides, rels |-> last.pre.rels]

\* what the other interpreter leaves for the same specification on the same
\* presentation
OtherBuild ==
    IF last.op = "cli_build_from_spec"
    THEN api_build_from_spec(PrsBefore, last.args.spec)
    ELSE cli_build_from_spec(PrsBefore, last.args.spec)

\* C27: cli._build_from_spec and api._build_from_spec, run on equal
\* presentations with the same specification, end in equal states (slides in
\* number and order, layouts bound, content, speaker notes) and one fails
\* exactly when the other fails.
C27_InterpretersAgree ==
    IsBuild =>
        /\ OtherBuild.p.slides = slides
        /\ Failed(OtherBuild.err) <=> Failed(last.err)

----------------------------------------------------------------------------
(* Generation: cli.generate and api._generate_pptx_bytes load the default   *)
(* presentation or a template, clear the template's slides and interpret   *)
(* the specification.                                                      *)

\* the most slides a template file carries
MaxTemplateSlides == 2
\* the most entries of a specification handed to a generation entry point
MaxGenEntries == 1

\* Presentation(template) for a template file with n slides of its own
RECURSIVE TemplateFile(_, _)
TemplateFile(lay, n) ==
    IF n = 0 THEN Fresh(lay)
    ELSE add_title_slide(TemplateFile(lay, n - 1), T_T, <<>>, PyInt(0)).p

\* PowerPresentation(template=template): the record of the call tells whether
\* a template was given
LoadedFrom(P, template) ==
    /\ layouts = P.layouts
    /\ slides = P.slides
    /\ rels = P.rels
    /\ last = [NoCall EXCEPT !.args = [template |-> template]]

InitGenerate ==
    \/ LoadedFrom(Fresh(DefaultLayouts), FALSE)
    \/ \E lay \in Decks, n \in 0..MaxTemplateSlides : LoadedFrom(TemplateFile(lay, n), TRUE)

\* generate without the clear_slides call: the template's slides stay
cli_generate_keeping_slides(P, template, spec) == cli_build_from_spec(P, spec)

\* cli.generate from the construction of ppt to _build_from_spec
cli_generate(P, template, spec) ==
    Then(IF template THEN clear_slides(P) ELSE [p |-> P, err |-> NoErr],
         LAMBDA Q : cli_build_from_spec(Q, spec))

\* api._generate_pptx_bytes from the construction of ppt to _build_from_spec
generate_pptx_bytes(P, template, spec) ==
    Then(IF template THEN clear_slides(P) ELSE [p |-> P, err |-> NoErr],
         LAMBDA Q : api_build_from_spec(Q, spec))

\* the specifications handed to the generation entry points
GenSpecs ==
    {[TopSamples[t] EXCEPT !.slides = [j \in DOMAIN pick |-> EntrySamples[pick[j]]]] :
        t \in 1..Len(TopSamples),
        pick \in UNION {[1..n -> 1..Len(EntrySamples)] : n \in 0..MaxGenEntries}}

ClearSlides ==
    /\ last.op = "init"
    /\ Commit(clear_slides(Prs), "clear_slides", [template |-> last.args.template])

GenerateCli(spec) ==
    /\ last.op = "init"
    /\ Commit(cli_generate(Prs, last.args.template, spec), "cli_generate",
              [template |-> last.args.template, spec |-> spec])

GenerateApi(spec) ==
    /\ last.op = "init"
    /\ Commit(generate_pptx_bytes(Prs, last.args.template, spec), "generate_pptx_bytes",
              [template |-> last.args.template, spec |-> spec])

NextGenerate ==
    \/ ClearSlides
    \/ \E spec \in GenSpecs : GenerateCli(spec)
    \/ \E spec \in GenSpecs : GenerateApi(spec)

SpecGenerate == InitGenerate /\ [][NextGenerate]_vars

\* the number of remove_slide(0) calls the loop of clear_slides makes
RECURSIVE ClearSteps(_)
ClearSteps(P) ==
    IF slide_count(P) > 0 /\ ~Failed(remove_slide(P, 0).err)
    THEN 1 + ClearSteps(remove_slide(P, 0).p)
    ELSE 0

\* C28: clear_slides ends after exactly slide_count removals of the slide at
\* index 0 and leaves no slide and the layouts as they were; a generation
\* entry point that loaded a template clears it first, so the deck it leaves
\* is the deck the interpreter makes from the specification on a presentation
\* without slides.
C28_ClearSlides ==
    [][/\ last'.op = "clear_slides" =>
            /\ last'.err = NoErr
            /\ slides' = <<>>
            /\ rels' = {}
            /\ layouts' = layouts
            /\ ClearSteps(Prs) = Len(slides)
       /\ last'.op = "cli_generate" =>
            /\ layouts' = layouts
            /\ slides' = cli_build_from_spec(Fresh(layouts), last'.args.spec).p.slides
            /\ last'.err = cli_build_from_spec(Fresh(layouts), last'.args.spec).err
       /\ last'.op = "generate_pptx_bytes" =>
            /\ layouts' = layouts
            /\ slides' = api_build_from_spec(Fresh(layouts), last'.args.spec).p.slides
            /\ last'.err = api_build_from_spec(Fresh(layouts), last'.args.spec).err
      ]_vars

\* a template with two slides was loaded and a specification with a title
\* and one entry generated: the deck holds the two slides of the
\* specification and none of the template
C28_Witness ==
    /\ last.op = "cli_generate"
    /\ last.args.template
    /\ Len(last.pre.slides) = 2
    /\ last.err = NoErr
    /\ last.args.spec.title = T_T
    /\ Len(last.args.spec.slides) = 1
    /\ Len(slides) = 2
    /\ \A i \in 1..2 : slides[i] \notin {last.pre.slides[j] : j \in 1..2}
    /\ SlideTitle(slides[1]) = T_T

----------------------------------------------------------------------------
(* Claims about what a failed interpretation leaves *)

\* the entry is one whose failure comes after its slide was added: a bar or
\* line chart entry with a series whose length differs from the categories',
\* or a content entry on a layout that exists whose image file is missing
FailsAfterSlide(P, e) ==
    \/ /\ TypeOf(e) = "chart"
       /\ Get(e, "chart_type", "bar") # "pie"
       /\ \E i \in 1..Len(e.series) : Len(e.series[i].values) # Len(e.categories)
    \/ /\ TypeOf(e) = "content"
       /\ ~Failed(add_content_slide(P, Get(e, "title", <<>>), Get(e, "bullets", None),
                                    Get(e, "layout", None)).err)
       /\ Get(e, "image", <<>>) \notin Files \cup {<<>>}
       /\ BadFields(e) = {}

\* C29: when interpreting the entry at position k fails there is no rollback:
\* the slides of the top-level title and of the entries before k are still
\* there, in order and as they were; no slide exists for an entry after k; and
\* the slide of entry k is there when the failure came after the slide was
\* added (a chart entry with a series length mismatch, a content entry whose
\* image file is missing).
C29_NoRollback ==
    (IsBuild /\ Failed(last.err) /\ ~Failed(StateAfter(0).err)) =>
        \E k \in 1..Len(last.args.spec.slides) :
            /\ ~Failed(StateAfter(k - 1).err)
            /\ Failed(StateAfter(k).err)
            /\ With(StateAfter(k - 1).p, LAMBDA before :
                /\ Len(slides) \in {Len(before.slides), Len(before.slides) + 1}
                /\ SubSeq(slides, 1, Len(before.slides)) = before.slides
                /\ FailsAfterSlide(before, last.args.spec.slides[k])
                    => Len(slides) = Len(before.slides) + 1)

----------------------------------------------------------------------------
(* Batch generation: api.batch_generate builds every item of a request on  *)
(* a presentation of its own and answers with results and errors.          *)

\* the most items of a batch request
MaxItems == 2

\* item.spec.model_dump(exclude_none=True): "slides" is always there, and
\* every entry carries "type", "content" when the request gave none
model_dump(spec) ==
    [keys |-> spec.keys \cup {"slides"}, title |-> spec.title, subtitle |-> spec.subtitle,
     slides |-> [j \in 1..Len(spec.slides) |->
                    [spec.slides[j] EXCEPT !.keys = @ \cup {"type"},
                                           !.type = Get(spec.slides[j], "type", "content")]]]

\* what the loop of batch_generate appends for item i (1-based) whose
\* generation ended as r: the deck stands for the bytes of the saved file
Answer(resp, items, i, r) ==
    IF Failed(r.err)
    THEN [resp EXCEPT !.errors = Append(@, [index |-> i - 1, filename |-> items[i].filename,
                                            error |-> r.err])]
    ELSE [resp EXCEPT !.results = Append(@, [index |-> i - 1,
                                             filename |-> items[i].filename,
                                             deck |-> r.p.slides])]

RECURSIVE BatchLoopShared(_, _, _, _)
\* the loop of batch_generate building every item on the presentation the
\* item before it left
BatchLoopShared(items, i, P, resp) ==
    IF i > Len(items) THEN resp
    ELSE With(generate_pptx_bytes(P, FALSE, model_dump(items[i].spec)), LAMBDA r :
            BatchLoopShared(items, i + 1, r.p, Answer(resp, items, i, r)))

RECURSIVE BatchLoop(_, _, _, _)
\* the loop of batch_generate from item i on: _generate_pptx_bytes constructs
\* the default presentation for every item, P is what it constructs
BatchLoop(items, i, P, resp) ==
    IF i > Len(items) THEN resp
    ELSE With(generate_pptx_bytes(P, FALSE, model_dump(items[i].spec)), LAMBDA r :
            BatchLoop(items, i + 1, P, Answer(resp, items, i, r)))

\* batch_generate: the response
batch_generate(items) ==
    With(BatchLoop(items, 1, Fresh(DefaultLayouts), [results |-> <<>>, errors |-> <<>>]),
         LAMBDA resp :
            [total |-> Len(items), successful |-> Len(resp.results),
             failed |-> Len(resp.errors), results |-> resp.results,
             errors |-> resp.errors])

F_deck == <<"d","e","c","k",".","p","p","t","x">>

\* specifications of batch items: no entry or one entry (two content entries,
\* a table, a blank with a note, a content entry with a missing image), without
\* or with a title
BatchItems ==
    {[spec |-> [TopSamples[t] EXCEPT !.slides = entries], filename |-> F_deck] :
        t \in {1, 2},
        entries \in {<<>>} \cup {<<EntrySamples[k]>> : k \in {1, 2, 6, 9, 15}}}

\* the service holds no presentation between requests
InitBatch == Loaded(DefaultLayouts)

BatchGenerate(items) ==
    /\ last.op = "init"
    /\ Commit([p |-> Prs, err |-> NoErr], "batch_generate",
              [items |-> items, response |-> batch_generate(items)])

NextBatch ==
    \E n \in 0..MaxItems : \E items \in [1..n -> BatchItems] : BatchGenerate(items)

SpecBatch == InitBatch /\ [][NextBatch]_vars

\* the records of a list of the response that carry the index i
WithIndex(list, i) == {j \in 1..Len(list) : list[j].index = i}

\* C30: batch_generate handles every item once and in order, each on its own
\* fresh presentation: every item index is in exactly one of results and
\* errors, both in increasing order; successful + failed = total = the number
\* of items; and every item ends as it ends when generated alone, whatever
\* the items before it did.
C30_BatchGenerate ==
    last.op = "batch_generate" =>
        LET items == last.args.items
            resp == last.args.response
            Alone(i) == generate_pptx_bytes(Fresh(DefaultLayouts), FALSE,
                                            model_dump(items[i + 1].spec))
        IN  /\ resp.total = Len(items)
            /\ resp.successful = Len(resp.results)
            /\ resp.failed = Len(resp.errors)
            /\ resp.successful + resp.failed = resp.total
            /\ \A i \in 0..(Len(items) - 1) :
                    Cardinality(WithIndex(resp.results, i))
                        + Cardinality(WithIndex(resp.errors, i)) = 1
            /\ \A j \in 1..Len(resp.results) :
                    /\ resp.results[j].index \in 0..(Len(items) - 1)
                    /\ \A h \in 1..(j - 1) : resp.results[h].index < resp.results[j].index
                    /\ ~Failed(Alone(resp.results[j].index).err)
                    /\ resp.results[j].deck = Alone(resp.results[j].index).p.slides
            /\ \A j \in 1..Len(resp.errors) :
                    /\ resp.errors[j].index \in 0..(Len(items) - 1)
                    /\ \A h \in 1..(j - 1) : resp.errors[h].index < resp.errors[j].index
                    /\ resp.errors[j].error = Alone(resp.errors[j].index).err
                    /\ Failed(resp.errors[j].error)

\* the first item of two failed after its slide was added (a missing image
\* file) and the second was generated as if alone: one slide, no trace of
\* the first
C30_Witness ==
    /\ last.op = "batch_generate"
    /\ Len(last.args.items) = 2
    /\ last.args.response.errors # <<>>
    /\ last.args.response.errors[1].index = 0
    /\ last.args.response.errors[1].error.kind = "FileNotFoundError"
    /\ last.args.response.results # <<>>
    /\ last.args.response.results[1].index = 1
    /\ Len(last.args.response.results[1].deck) = 1
    /\ last.args.response.results[1].deck[1].id = 256
    /\ slides = <<>>

====
